---- MODULE Spec2Model ----
(***************************************************************************)
(* A model of the conversation-context and tool-tracking core of the       *)
(* Ayurveda assistant backend:                                             *)
(*   - ContextManager        (back/service/context_manager.py)             *)
(*   - ConversationMemory    (back/service/conversation_memory.py)         *)
(*   - ConversationSummarizer(back/service/conversation_summarizer.py)     *)
(*   - ToolUsageTracker      (back/service/tool_usage_tracker.py)          *)
(*   - AgentService.invoke   (back/service/agent_service.py)               *)
(* Each component has its own specification over the shared variables;     *)
(* the variables of the other components stay at their initial values.     *)
(***************************************************************************)
EXTENDS Integers, Sequences, FiniteSets, TLC

VARIABLES
    \* ---- ContextManager ----
    max_tokens,             \* self.max_tokens
    max_messages,           \* self.max_messages
    min_recent_messages,    \* self.min_recent_messages
    conversation_history,   \* self.conversation_history: Seq of message records
    added,                  \* every message passed to add_message so far, in call order
    context_summary,        \* self.context_summary
    context,                \* what the last get_context call returned
    prune_frame,            \* where a _prune_history call run step by step stands
    \* ---- ToolUsageTracker ----
    metrics,                \* self.metrics: record of per-tool dictionaries
    user_sessions,          \* self.user_sessions: dict user_id -> session record
    article_metrics,        \* self.article_metrics: dict article_id -> counters
    last_tool_used,         \* self.last_tool_used: dict user_id -> tool name
    calls,                  \* every log_tool_use call completed so far, in order
    recommendations,        \* outcome of the last get_article_recommendations call
    storage_path,           \* self.storage_path
    usage_data,             \* self.usage_data
    usage_file,             \* the file at storage_path
    restarts,               \* trackers constructed on storage_path after the first
    previous,               \* the counts of the tracker the last restart replaced
    threads,                \* request threads inside log_tool_use: thread -> frame
    \* ---- ConversationMemory ----
    mem_config,             \* max_messages, max_tokens, enable_summarization, tokenizer
    chat_messages,          \* self.chat_memory.messages
    metadata_store,         \* self.metadata_store
    disk,                   \* persist_dir: history.json and history.tmp
    mem_frame,              \* where the running ConversationMemory call stands
    mem_returned,           \* the operation that returned last
    saves,                  \* number of save_context calls made so far
    \* ---- AgentService ----
    total_requests,         \* self.metrics["total_requests"]
    invoke_frame,           \* where the running invoke call stands
    invoke_result,          \* what the last invoke call gave its caller
    agent_memory,           \* the ConversationMemory self.memory refers to
    executor_memory,        \* id of the object self.executor.memory refers to
    session_file,           \* history.json under the agent's persist_dir
    switch_result,          \* what the last switch_session call gave its caller
    \* ---- RecommendationService ----
    rank_input,             \* base_results, personal_results, personalization_weight
    ranked,                 \* what _rank_recommendations returned for them
    rec_request,            \* one get_personalized_recommendations call: what fails in it
    rec_result,             \* what that call gave its caller
    \* ---- ConversationSummarizer ----
    summarizer_input,       \* messages handed to process_messages, max_tokens, LLM up
    summarizer_result       \* what process_messages returned, and the LLM calls made

ctxVars == <<max_tokens, max_messages, min_recent_messages, conversation_history, added>>

trackerVars == <<metrics, user_sessions, article_metrics, last_tool_used, calls>>

memVars == <<mem_config, chat_messages, metadata_store, disk, mem_frame, mem_returned, saves>>

agentVars == <<total_requests, invoke_frame, invoke_result>>

\* What the read-only calls handed back to their callers
queryVars == <<recommendations>>

storeVars == <<storage_path, usage_data, usage_file, restarts, previous>>

sessionVars == <<agent_memory, executor_memory, session_file, switch_result>>

summaryVars == <<context_summary, context>>

rankVars == <<rank_input, ranked>>

pipelineVars == <<rec_request, rec_result>>

summarizerVars == <<summarizer_input, summarizer_result>>

pruneVars == <<prune_frame>>

vars == <<ctxVars, trackerVars, threads, memVars, agentVars, queryVars, storeVars,
          sessionVars, summaryVars, rankVars, pipelineVars, summarizerVars,
          pruneVars>>

\* What the operations of one component leave alone
notCtxVars ==
    <<trackerVars, threads, memVars, agentVars, queryVars, storeVars, sessionVars, summaryVars,
      rankVars, pipelineVars, summarizerVars,
      pruneVars>>
notTrackerVars ==
    <<ctxVars, memVars, agentVars, queryVars, storeVars, sessionVars, summaryVars,
      rankVars, pipelineVars, summarizerVars,
      pruneVars>>
notMemVars ==
    <<ctxVars, trackerVars, threads, agentVars, queryVars, storeVars, sessionVars, summaryVars,
      rankVars, pipelineVars, summarizerVars,
      pruneVars>>
notAgentVars ==
    <<ctxVars, trackerVars, threads, memVars, queryVars, storeVars, sessionVars, summaryVars,
      rankVars, pipelineVars, summarizerVars,
      pruneVars>>
notSummaryVars ==
    <<ctxVars, trackerVars, threads, memVars, agentVars, queryVars, storeVars, sessionVars,
      rankVars, pipelineVars, summarizerVars,
      pruneVars>>
notRankVars ==
    <<ctxVars, trackerVars, threads, memVars, agentVars, queryVars, storeVars, sessionVars,
      summaryVars, pipelineVars, summarizerVars,
      pruneVars>>
notPipelineVars ==
    <<ctxVars, trackerVars, threads, memVars, agentVars, queryVars, storeVars, sessionVars,
      summaryVars, rankVars, summarizerVars,
      pruneVars>>
notSummarizerVars ==
    <<ctxVars, trackerVars, threads, memVars, agentVars, queryVars, storeVars, sessionVars,
      summaryVars, rankVars, pipelineVars,
      pruneVars>>
\* What the steps of one add_message call leave alone
notLoopVars ==
    <<trackerVars, threads, memVars, agentVars, queryVars, storeVars, sessionVars, summaryVars,
      rankVars, pipelineVars, summarizerVars>>

(***************************************************************************)
(* Generic helpers                                                         *)
(***************************************************************************)
Min(a, b) == IF a <= b THEN a ELSE b
Max(a, b) == IF a >= b THEN a ELSE b

Range(s) == {s[i] : i \in 1..Len(s)}

\* Python s[:n] for n >= 0
Take(s, n) == SubSeq(s, 1, Min(n, Len(s)))

\* Python s[n:] for n >= 0
Drop(s, n) == SubSeq(s, Min(n, Len(s)) + 1, Len(s))

\* Python s[-n:] for n >= 0.  Note that s[-0:] is s[0:], the whole list.
PyTail(s, n) == IF n = 0 THEN s ELSE SubSeq(s, Max(1, Len(s) - n + 1), Len(s))

\* s without its i-th element (list.pop(i), 1-based here)
RemoveAt(s, i) == SubSeq(s, 1, i - 1) \o SubSeq(s, i + 1, Len(s))

RECURSIVE SumTokens(_)
SumTokens(s) == IF s = <<>> THEN 0 ELSE s[1].tokens + SumTokens(Tail(s))

(***************************************************************************)
(* ContextManager                                                          *)
(***************************************************************************)
\* Bounds of the ContextManager model
MaxAdds == 5            \* add_message calls explored
MaxMsgTokens == 3       \* largest token count of one message

Roles == {"system", "user", "assistant"}

\* _count_tokens(content): the content is abstracted to its token count
\* ("" counts 0 tokens).
TokenCounts == {0, 1, MaxMsgTokens}

\* Constructor arguments explored (max_tokens, max_messages, min_recent_messages)
CtxConfigs == { <<4, 3, 1>>, <<4, 3, 2>>, <<6, 4, 2>>, <<4, 2, 2>> }

\* One entry of conversation_history.  datetime.utcnow().isoformat() is
\* modelled as the ordinal of the call (strictly increasing).
Message(role, tokens, ts) == [role |-> role, tokens |-> tokens, timestamp |-> ts]

IsSystem(m) == m.role = "system"

SystemMsgs(h) == SelectSeq(h, IsSystem)

NonSystemCount(h) == Len(h) - Len(SystemMsgs(h))

\* sorted(other_msgs, key=timestamp, reverse=True): stable, descending.
RECURSIVE SortByTimestampDesc(_)
SortByTimestampDesc(s) ==
    IF s = <<>> THEN <<>>
    ELSE LET isMax(i) == \A j \in 1..Len(s) : s[j].timestamp <= s[i].timestamp
             first == CHOOSE i \in 1..Len(s) :
                         isMax(i) /\ \A j \in 1..(i - 1) : ~isMax(j)
         IN  <<s[first]>> \o SortByTimestampDesc(RemoveAt(s, first))

\* Mutant of KeepCount: the room taken by the protected tail is forgotten.
KeepCount_IgnoringTail(nOther, nSystem, maxMsgs, minRecent) ==
    Min(nOther, Max(0, maxMsgs - nSystem))

\* keep_count of the count-based pass
KeepCount(nOther, nSystem, maxMsgs, minRecent) ==
    Min(nOther, Max(0, maxMsgs - nSystem - minRecent))

\* First pass of _prune_history: the message-count limit.
PruneByCount(h, maxMsgs, minRecent) ==
    IF Len(h) > maxMsgs
    THEN LET system_msgs == SystemMsgs(h)
             recent_msgs == PyTail(h, minRecent)
             notKept(m)  == m \notin Range(system_msgs) /\ m \notin Range(recent_msgs)
             other_msgs  == SortByTimestampDesc(SelectSeq(h, notKept))
             keep_count  == KeepCount(Len(other_msgs), Len(system_msgs), maxMsgs, minRecent)
         IN  system_msgs \o Take(other_msgs, keep_count) \o recent_msgs
    ELSE h

\* Mutant of Removable: the token pass does not protect the recent tail.
Removable_NoTail(h, minRecent) ==
    {i \in 1..Len(h) : ~IsSystem(h[i])}

\* Mutant of Removable: the token pass does not look at the role.
Removable_AnyRole(h, minRecent) ==
    {i \in 1..Len(h) : (i - 1) < Len(h) - minRecent}

\* Indices (1-based) the token pass may remove: non-system turns outside the
\* last min_recent_messages positions (0-based i < len - min_recent).
Removable(h, minRecent) ==
    {i \in 1..Len(h) : ~IsSystem(h[i]) /\ (i - 1) < Len(h) - minRecent}

\* One iteration of the while loop body: pop the first removable turn.
PopOldestRemovable(h, minRecent) ==
    LET i == CHOOSE k \in Removable(h, minRecent) :
                 \A j \in Removable(h, minRecent) : k <= j
    IN  RemoveAt(h, i)

\* Second pass of _prune_history: the token budget.
RECURSIVE PruneByTokens(_, _, _)
PruneByTokens(h, maxTok, minRecent) ==
    IF SumTokens(h) > maxTok /\ Len(h) > 1 /\ Removable(h, minRecent) # {}
    THEN PruneByTokens(PopOldestRemovable(h, minRecent), maxTok, minRecent)
    ELSE h

_prune_history(h, maxTok, maxMsgs, minRecent) ==
    PruneByTokens(PruneByCount(h, maxMsgs, minRecent), maxTok, minRecent)

CtxInit ==
    /\ \E c \in CtxConfigs :
          /\ max_tokens = c[1]
          /\ max_messages = c[2]
          /\ min_recent_messages = c[3]
    /\ conversation_history = <<>>
    /\ added = <<>>

\* ContextManager.add_message(role, content)
add_message(role, tokens) ==
    /\ Len(added) < MaxAdds
    /\ LET message == Message(role, tokens, Len(added) + 1)
       IN  /\ conversation_history' =
                 _prune_history(Append(conversation_history, message),
                                max_tokens, max_messages, min_recent_messages)
           /\ added' = Append(added, message)
    /\ UNCHANGED <<max_tokens, max_messages, min_recent_messages>>
    /\ UNCHANGED notCtxVars

\* A ContextManager that is constructed and never used
CtxIdle ==
    /\ max_tokens = 4
    /\ max_messages = 3
    /\ min_recent_messages = 1
    /\ conversation_history = <<>>
    /\ added = <<>>

\* The synthetic turn wrapping the summary text
SummaryTurn(summary) == [role |-> "system", content |-> summary, is_summary |-> TRUE]

\* Mutant of SummaryTurns: the summary turn is added for an empty summary too.
SummaryTurns_EvenIfEmpty(summary, include_summary) ==
    IF include_summary THEN <<SummaryTurn(summary)>> ELSE <<>>

\* if include_summary and self.context_summary: context.append(...)
SummaryTurns(summary, include_summary) ==
    IF include_summary /\ summary # "" THEN <<SummaryTurn(summary)>> ELSE <<>>

\* ContextManager._get_recent_messages(n): n or max_messages, then
\* history[-min(n, len(history)):]
_get_recent_messages(h, n, maxMsgs) ==
    LET m == IF n = 0 THEN maxMsgs ELSE n
    IN  PyTail(h, Min(m, Len(h)))

\* A ContextManager with no summary, never asked for its context
SummaryIdle ==
    /\ context_summary = ""
    /\ context = [kind |-> "none"]

\* ContextManager.update_summary
update_summary(summary) ==
    /\ context_summary' = summary
    /\ UNCHANGED <<context, notSummaryVars>>

\* ContextManager.get_context; the caller gets the list, kept here with the
\* arguments and the state it was built from
get_context(include_recent, include_summary) ==
    /\ context' =
          [kind |-> "returned",
           include_recent |-> include_recent,
           include_summary |-> include_summary,
           history |-> conversation_history,
           summary |-> context_summary,
           items |-> SystemMsgs(conversation_history)
                        \o SummaryTurns(context_summary, include_summary)
                        \o (IF include_recent
                            THEN _get_recent_messages(conversation_history, 0, max_messages)
                            ELSE <<>>)]
    /\ UNCHANGED <<context_summary, notSummaryVars>>

\* Turns of one token each, summaries set and contexts read
NextContext ==
    \/ \E role \in Roles : add_message(role, 1)
    \/ \E summary \in {"", "earlier talk"} : update_summary(summary)
    \/ \E include_recent, include_summary \in BOOLEAN :
          get_context(include_recent, include_summary)

CtxNext == \E role \in Roles, tokens \in TokenCounts : add_message(role, tokens)

(***************************************************************************)
(* ContextManager.add_message with the while loop of _prune_history run    *)
(* one iteration at a time                                                 *)
(***************************************************************************)
\* Token counts of the turns added here: a small turn and one turn that is
\* larger than the smallest max_tokens explored
LoopTokenCounts == {1, MaxMsgTokens + 2}

PruneIdleFrame == [pc |-> "idle"]

\* No add_message call is running
PruneIdle == prune_frame = PruneIdleFrame

\* add_message up to the while statement: the turn is appended, the count
\* pass has run and total_tokens is summed
AddMessageBegin(role, tokens) ==
    /\ prune_frame.pc = "idle"
    /\ Len(added) < MaxAdds
    /\ LET message == Message(role, tokens, Len(added) + 1)
           h == PruneByCount(Append(conversation_history, message),
                             max_messages, min_recent_messages)
       IN  /\ conversation_history' = h
           /\ added' = Append(added, message)
           /\ prune_frame' = [pc |-> "while", total_tokens |-> SumTokens(h)]
    /\ UNCHANGED <<max_tokens, max_messages, min_recent_messages, notLoopVars>>

\* while total_tokens > self.max_tokens and len(self.conversation_history) > 1
WhileCondition ==
    prune_frame.total_tokens > max_tokens /\ Len(conversation_history) > 1

\* One iteration whose for loop finds a turn to remove: pop it and break
LoopRemove ==
    /\ prune_frame.pc = "while"
    /\ WhileCondition
    /\ Removable(conversation_history, min_recent_messages) # {}
    /\ LET i == CHOOSE k \in Removable(conversation_history, min_recent_messages) :
                   \A j \in Removable(conversation_history, min_recent_messages) : k <= j
       IN  /\ prune_frame' = [prune_frame EXCEPT
                                 !.total_tokens = @ - conversation_history[i].tokens]
           /\ conversation_history' = RemoveAt(conversation_history, i)
    /\ UNCHANGED <<max_tokens, max_messages, min_recent_messages, added, notLoopVars>>

\* One iteration whose for loop runs out: the else clause breaks
LoopBreak ==
    /\ prune_frame.pc = "while"
    /\ WhileCondition
    /\ Removable(conversation_history, min_recent_messages) = {}
    /\ prune_frame' = PruneIdleFrame
    /\ UNCHANGED <<ctxVars, notLoopVars>>

\* The while condition is false: _prune_history and add_message return
LoopExit ==
    /\ prune_frame.pc = "while"
    /\ ~WhileCondition
    /\ prune_frame' = PruneIdleFrame
    /\ UNCHANGED <<ctxVars, notLoopVars>>

LoopStep == LoopRemove \/ LoopBreak \/ LoopExit

NextLoop ==
    \/ \E role \in Roles, tokens \in LoopTokenCounts : AddMessageBegin(role, tokens)
    \/ LoopRemove
    \/ LoopBreak
    \/ LoopExit

(***************************************************************************)
(* ToolUsageTracker                                                        *)
(***************************************************************************)
\* Bound of the tracker model
MaxCalls == 4           \* log_tool_use calls explored

\* Size of the response-time window kept per tool
ResponseWindow == 1000

\* Python None where a string is expected
None == "<None>"

\* Truthiness of an Optional[str]: None and "" are falsy.
Truthy(x) == x \notin {None, ""}

\* dict helpers: a dict is a function whose DOMAIN is its key set
EmptyDict == <<>>
Put(d, k, v) == [x \in (DOMAIN d) \cup {k} |-> IF x = k THEN v ELSE d[x]]
\* defaultdict / dict.get read with a default
Get(d, k, default) == IF k \in DOMAIN d THEN d[k] ELSE default

\* self.metrics as __init__ builds it
FreshMetrics ==
    [invocations      |-> EmptyDict,
     errors           |-> EmptyDict,
     response_times   |-> EmptyDict,
     last_used        |-> EmptyDict,
     user_engagement  |-> EmptyDict,
     concurrent_usage |-> EmptyDict]

\* The tracker right after __init__
TrackerFresh ==
    /\ metrics = FreshMetrics
    /\ user_sessions = EmptyDict
    /\ article_metrics = EmptyDict
    /\ last_tool_used = EmptyDict
    /\ calls = <<>>
    /\ recommendations = [kind |-> "none"]

\* The arguments of one log_tool_use call.  response_time is <<>> for None
\* and <<t>> for a number; metadata is a dict (None is the empty dict: both
\* are falsy where the code tests it).
Call(tool_name, user_id, success, error, response_time, metadata) ==
    [tool_name |-> tool_name, user_id |-> user_id, success |-> success,
     error |-> error, response_time |-> response_time, metadata |-> metadata]

\* if not success and error
CountsAsError(c) == ~c.success /\ Truthy(c.error)

\* Mutant of InvocationsAfter: only successful calls are counted.
InvocationsAfter_SuccessOnly(inv, c) ==
    IF c.success THEN Put(inv, c.tool_name, Get(inv, c.tool_name, 0) + 1) ELSE inv

\* self.metrics['invocations'][tool_name] += 1
InvocationsAfter(inv, c) == Put(inv, c.tool_name, Get(inv, c.tool_name, 0) + 1)

\* Mutant of ErrorsAfter: every unsuccessful call counts, error text or not.
ErrorsAfter_AnyFailure(err, c) ==
    IF ~c.success THEN Put(err, c.tool_name, Get(err, c.tool_name, 0) + 1) ELSE err

\* if not success and error: self.metrics['errors'][tool_name] += 1
ErrorsAfter(err, c) ==
    IF CountsAsError(c) THEN Put(err, c.tool_name, Get(err, c.tool_name, 0) + 1) ELSE err

\* Mutant of ResponseTimesAfter: the window keeps its first 1000 samples.
ResponseTimesAfter_KeepFirst(rts, c) ==
    IF c.response_time # <<>>
    THEN Put(rts, c.tool_name,
             Take(Get(rts, c.tool_name, <<>>) \o c.response_time, ResponseWindow))
    ELSE rts

\* append the response time and keep the last 1000
ResponseTimesAfter(rts, c) ==
    IF c.response_time # <<>>
    THEN Put(rts, c.tool_name,
             PyTail(Get(rts, c.tool_name, <<>>) \o c.response_time, ResponseWindow))
    ELSE rts

\* Track tool sequences: only the entry of the tool just used is extended.
ConcurrentUsageAfter(cu, c, lastTool) ==
    IF c.user_id \in DOMAIN lastTool /\ lastTool[c.user_id] # c.tool_name
    THEN Put(cu, c.tool_name, Get(cu, c.tool_name, {}) \cup {lastTool[c.user_id]})
    ELSE cu

\* self.metrics after the call, timestamp ts
MetricsAfter(m, c, ts, lastTool) ==
    [invocations      |-> InvocationsAfter(m.invocations, c),
     errors           |-> ErrorsAfter(m.errors, c),
     response_times   |-> ResponseTimesAfter(m.response_times, c),
     last_used        |-> Put(m.last_used, c.tool_name, ts),
     user_engagement  |->
         IF Truthy(c.user_id)
         THEN Put(m.user_engagement, c.tool_name,
                  Get(m.user_engagement, c.tool_name, {}) \cup {c.user_id})
         ELSE m.user_engagement,
     concurrent_usage |->
         IF Truthy(c.user_id)
         THEN ConcurrentUsageAfter(m.concurrent_usage, c, lastTool)
         ELSE m.concurrent_usage]

\* self.user_sessions after the call
UserSessionsAfter(us, c, ts) ==
    IF Truthy(c.user_id)
    THEN LET old == Get(us, c.user_id,
                        [first_seen |-> ts, last_seen |-> ts, tool_usage |-> EmptyDict,
                         session_count |-> 0, current_session_start |-> ts])
         IN  Put(us, c.user_id,
                 [old EXCEPT !.last_seen = ts,
                             !.tool_usage = Put(@, c.tool_name, Get(@, c.tool_name, 0) + 1)])
    ELSE us

\* the article branch is nested in "if user_id:"
TracksArticle(c) ==
    /\ Truthy(c.user_id)
    /\ c.tool_name = "article_recommender"
    /\ c.metadata # EmptyDict
    /\ "article_id" \in DOMAIN c.metadata

FreshArticle ==
    [views |-> 0, likes |-> 0, shares |-> 0, saves |-> 0, avg_read_time |-> 0,
     last_viewed |-> 0]

\* Mutant of ArticleEntryAfter: a like is also counted as a save.
ArticleEntryAfter_LikeAlsoSaves(e, kind, ts) ==
    [e EXCEPT !.views = @ + 1,
              !.last_viewed = ts,
              !.likes  = IF kind = "like" THEN @ + 1 ELSE @,
              !.shares = IF kind = "share" THEN @ + 1 ELSE @,
              !.saves  = IF kind \in {"save", "like"} THEN @ + 1 ELSE @]

\* One article entry after an interaction of the given type
ArticleEntryAfter(e, kind, ts) ==
    [e EXCEPT !.views = @ + 1,
              !.last_viewed = ts,
              !.likes  = IF kind = "like" THEN @ + 1 ELSE @,
              !.shares = IF kind = "share" THEN @ + 1 ELSE @,
              !.saves  = IF kind = "save" THEN @ + 1 ELSE @]

\* self.article_metrics after the call (the metadata explored carries no
\* read_time_seconds, so avg_read_time stays as it is)
ArticleMetricsAfter(am, c, ts) ==
    IF TracksArticle(c)
    THEN LET a == c.metadata["article_id"]
             kind == Get(c.metadata, "interaction_type", None)
         IN  Put(am, a, ArticleEntryAfter(Get(am, a, FreshArticle), kind, ts))
    ELSE am

\* ToolUsageTracker.log_tool_use; datetime.utcnow() is modelled as the
\* ordinal of the call.
log_tool_use_body(c) ==
    /\ LET ts == Len(calls) + 1
       IN  /\ metrics' = MetricsAfter(metrics, c, ts, last_tool_used)
           /\ user_sessions' = UserSessionsAfter(user_sessions, c, ts)
           /\ last_tool_used' = IF Truthy(c.user_id)
                                THEN Put(last_tool_used, c.user_id, c.tool_name)
                                ELSE last_tool_used
           /\ article_metrics' = ArticleMetricsAfter(article_metrics, c, ts)
    /\ calls' = Append(calls, c)
    /\ UNCHANGED <<notTrackerVars, threads>>

\* log_tool_use on a tracker that has taken fewer than MaxCalls calls
log_tool_use(c) ==
    /\ Len(calls) < MaxCalls
    /\ log_tool_use_body(c)

\* ToolUsageTracker.log_article_interaction
log_article_interaction(user_id, article_id, interaction_type) ==
    log_tool_use(Call("article_recommender", user_id, TRUE, None, <<>>,
                      [article_id |-> article_id, interaction_type |-> interaction_type]))

\* ToolUsageTracker.get_tool_metrics(tool_name); error_rate is the fraction
\* <<numerator, denominator>>.
get_tool_metrics(tool_name) ==
    IF tool_name \notin DOMAIN metrics.invocations
    THEN EmptyDict
    ELSE [invocations |-> metrics.invocations[tool_name],
          errors      |-> Get(metrics.errors, tool_name, 0),
          error_rate  |-> <<Get(metrics.errors, tool_name, 0),
                            Max(1, metrics.invocations[tool_name])>>,
          unique_users |-> Cardinality(Get(metrics.user_engagement, tool_name, {})),
          frequently_used_with |-> Get(metrics.concurrent_usage, tool_name, {}),
          last_used   |-> Get(metrics.last_used, tool_name, 0)]

\* The keys of self.article_metrics in insertion order: an article enters
\* the dict with the first call that tracks it.
RECURSIVE ArticleOrder(_)
ArticleOrder(cs) ==
    IF cs = <<>> THEN <<>>
    ELSE LET prev == ArticleOrder(Take(cs, Len(cs) - 1))
             c == cs[Len(cs)]
         IN  IF TracksArticle(c) /\ c.metadata["article_id"] \notin Range(prev)
             THEN Append(prev, c.metadata["article_id"])
             ELSE prev

\* The viewed-articles comprehension of get_article_recommendations: it
\* walks the keys of the user's tool_usage dict, which are tool names; for
\* the key 'article_recommender' it evaluates tool_use.get(...) on that
\* string.  The outcome is the set built, or the exception raised.
ViewedArticles(us, user_id, exclude_viewed) ==
    IF user_id \in DOMAIN us /\ exclude_viewed
    THEN IF "article_recommender" \in DOMAIN us[user_id].tool_usage
         THEN [exc |-> "AttributeError"]
         ELSE [exc |-> None, viewed |-> {}]
    ELSE [exc |-> None, viewed |-> {}]

\* The popularity score times 20, so that it stays an integer:
\* likes*2 + shares*3 + saves*2.5 + min(views/10, 10).  The time decay is
\* 0.95 ** days_old with days_old = 0: every call happens on the same day.
PopularityScore(m) ==
    m.likes * 40 + m.shares * 60 + m.saves * 50 + Min(m.views * 2, 200)

\* sorted(article_scores, key=score, reverse=True): stable
RECURSIVE SortByScoreDesc(_)
SortByScoreDesc(s) ==
    IF s = <<>> THEN <<>>
    ELSE LET rest == SortByScoreDesc(Take(s, Len(s) - 1))
             x == s[Len(s)]
             k == Cardinality({i \in 1..Len(rest) : rest[i].score >= x.score})
         IN  Take(rest, k) \o <<x>> \o Drop(rest, k)

\* (article_id, score) for every article not in viewed, in dict order
RECURSIVE ArticleScores(_, _, _)
ArticleScores(order, am, viewed) ==
    IF order = <<>> THEN <<>>
    ELSE LET a == Head(order)
             rest == ArticleScores(Tail(order), am, viewed)
         IN  IF a \in viewed \/ a \notin DOMAIN am THEN rest
             ELSE <<[article_id |-> a, score |-> PopularityScore(am[a])]>> \o rest

\* ToolUsageTracker.get_article_recommendations
get_article_recommendations(user_id, limit, exclude_viewed) ==
    /\ LET v == ViewedArticles(user_sessions, user_id, exclude_viewed)
           asked == [user_id |-> user_id, limit |-> limit,
                     exclude_viewed |-> exclude_viewed, at |-> Len(calls)]
       IN  recommendations' =
              IF v.exc # None
              THEN [kind |-> "raised", exc |-> v.exc, asked |-> asked]
              ELSE [kind |-> "returned", asked |-> asked,
                    items |-> Take(SortByScoreDesc(
                                 ArticleScores(ArticleOrder(calls), article_metrics,
                                               v.viewed)), limit)]
    /\ UNCHANGED <<trackerVars, threads, ctxVars, memVars, agentVars, storeVars, sessionVars, summaryVars, rankVars,
                 pipelineVars, summarizerVars, pruneVars>>

\* Inputs explored
Tools == {"article_recommender", "vector_store_search", "weather"}
UserIds == {None, "u1", "u2"}
Errors == {None, "", "timeout"}
ResponseTimes == {<<>>, <<2>>}
Articles == {"a1", "a2"}
InteractionTypes == {"view", "like", "share", "save"}
ArticleMetas ==
    {[article_id |-> a, interaction_type |-> k] : a \in Articles, k \in InteractionTypes}

\* Calls by anonymous callers with every outcome the error test tells apart
Outcomes == {<<TRUE, None>>, <<FALSE, "timeout">>, <<FALSE, "">>, <<FALSE, None>>}

OutcomeCalls ==
    {Call(t, None, o[1], o[2], rt, EmptyDict) :
        t \in {"vector_store_search", "weather"}, o \in Outcomes, rt \in ResponseTimes}

Threads == {"t1", "t2"}

IdleFrame == [pc |-> "idle"]

ThreadsIdle == threads = [t \in Threads |-> IdleFrame]

NextTracker ==
    \/ \E c \in OutcomeCalls : log_tool_use(c)
    \/ \E k \in {"view", "like"} : log_article_interaction("u1", "a1", k)

NextCoUse ==
    \E t \in Tools, u \in UserIds : log_tool_use(Call(t, u, TRUE, None, <<>>, EmptyDict))

NextArticle ==
    \/ \E u \in {None, "u1"}, m \in ArticleMetas :
          log_tool_use(Call("article_recommender", u, TRUE, None, <<>>, m))
    \/ \E t \in {"article_recommender", "weather"}, m \in {EmptyDict, [article_id |-> "a1"]} :
          log_tool_use(Call(t, "u1", TRUE, None, <<>>, m))

NextRecs ==
    \/ \E u \in {"u1", "u2"}, a \in Articles, k \in {"view", "like"} :
          log_article_interaction(u, a, k)
    \/ log_tool_use(Call("weather", "u2", TRUE, None, <<>>, EmptyDict))
    \/ \E u \in {"u1", "u2"}, limit \in {1, 2}, ex \in BOOLEAN :
          get_article_recommendations(u, limit, ex)

(***************************************************************************)
(* ToolUsageTracker after a long run: the response-time window of one tool *)
(* is full or one short of full                                            *)
(***************************************************************************)
\* Number of calls already logged when the exploration starts
WarmupSizes == {ResponseWindow - 1, ResponseWindow}

\* The i-th call of the long run: a weather call timed 1, 2 or 3
WarmupTime(i) == (i % 3) + 1

WarmupCall(i) == Call("weather", None, TRUE, None, <<WarmupTime(i)>>, EmptyDict)

\* The tracker after n = ResponseWindow - 1 or ResponseWindow such calls:
\* every sample is still in the window
TrackerWarm ==
    \E n \in WarmupSizes :
        /\ calls = [i \in 1..n |-> WarmupCall(i)]
        /\ metrics = [FreshMetrics EXCEPT
                         !.invocations = Put(EmptyDict, "weather", n),
                         !.response_times =
                             Put(EmptyDict, "weather", [i \in 1..n |-> WarmupTime(i)]),
                         !.last_used = Put(EmptyDict, "weather", n)]
        /\ user_sessions = EmptyDict
        /\ article_metrics = EmptyDict
        /\ last_tool_used = EmptyDict
        /\ recommendations = [kind |-> "none"]

\* log_tool_use on the tracker of the long run, up to MaxCalls more calls
LogAfterWarmup(c) ==
    /\ Len(calls) < ResponseWindow - 1 + MaxCalls
    /\ log_tool_use_body(c)

\* Timed and untimed calls of two tools
NextWindow ==
    \E t \in {"weather", "vector_store_search"}, rt \in {<<>>, <<5>>, <<7>>} :
        LogAfterWarmup(Call(t, None, TRUE, None, rt, EmptyDict))

(***************************************************************************)
(* ToolUsageTracker shared by request threads.  log_tool_use takes no      *)
(* lock; "d[k] += 1" is a load, an add and a store, and the interpreter    *)
(* may switch threads between the load and the store.                      *)
(***************************************************************************)
InFlight == {t \in Threads : threads[t].pc # "idle"}

\* Calls the threads make
ThreadCalls ==
    {Call("weather", None, o[1], o[2], <<>>, EmptyDict) :
        o \in {<<TRUE, None>>, <<FALSE, "timeout">>}}

\* A thread enters log_tool_use: timestamp = datetime.utcnow()
T_Enter(t, c) ==
    /\ threads[t].pc = "idle"
    /\ Len(calls) + Cardinality(InFlight) < MaxCalls
    /\ threads' = [threads EXCEPT ![t] =
                      [pc |-> "load_invocations", call |-> c,
                       ts |-> Len(calls) + Cardinality(InFlight) + 1, loaded |-> 0]]
    /\ UNCHANGED <<trackerVars, notTrackerVars>>

\* self.metrics['invocations'][tool_name] += 1: the load
T_LoadInvocations(t) ==
    /\ threads[t].pc = "load_invocations"
    /\ threads' = [threads EXCEPT ![t].pc = "store_invocations",
                                  ![t].loaded = Get(metrics.invocations, threads[t].call.tool_name, 0)]
    /\ UNCHANGED <<trackerVars, notTrackerVars>>

\* ... the store, then last_used[tool_name] = timestamp
T_StoreInvocations(t) ==
    /\ threads[t].pc = "store_invocations"
    /\ LET c == threads[t].call
       IN  /\ metrics' = [metrics EXCEPT
                            !.invocations = Put(@, c.tool_name, threads[t].loaded + 1),
                            !.last_used = Put(@, c.tool_name, threads[t].ts)]
           /\ threads' = [threads EXCEPT ![t].pc =
                            IF CountsAsError(c) THEN "load_errors" ELSE "rest"]
    /\ UNCHANGED <<user_sessions, article_metrics, last_tool_used, calls, notTrackerVars>>

\* self.metrics['errors'][tool_name] += 1: the load
T_LoadErrors(t) ==
    /\ threads[t].pc = "load_errors"
    /\ threads' = [threads EXCEPT ![t].pc = "store_errors",
                                  ![t].loaded = Get(metrics.errors, threads[t].call.tool_name, 0)]
    /\ UNCHANGED <<trackerVars, notTrackerVars>>

\* ... the store
T_StoreErrors(t) ==
    /\ threads[t].pc = "store_errors"
    /\ metrics' = [metrics EXCEPT
                     !.errors = Put(@, threads[t].call.tool_name, threads[t].loaded + 1)]
    /\ threads' = [threads EXCEPT ![t].pc = "rest"]
    /\ UNCHANGED <<user_sessions, article_metrics, last_tool_used, calls, notTrackerVars>>

\* The rest of log_tool_use (response times, user engagement, sessions,
\* co-occurrence, article metrics), taken in one step, and the return.
T_Rest(t) ==
    /\ threads[t].pc = "rest"
    /\ LET c  == threads[t].call
           ts == threads[t].ts
       IN  /\ metrics' = [MetricsAfter(metrics, c, ts, last_tool_used) EXCEPT
                            !.invocations = metrics.invocations,
                            !.errors = metrics.errors,
                            !.last_used = metrics.last_used]
           /\ user_sessions' = UserSessionsAfter(user_sessions, c, ts)
           /\ last_tool_used' = IF Truthy(c.user_id)
                                THEN Put(last_tool_used, c.user_id, c.tool_name)
                                ELSE last_tool_used
           /\ article_metrics' = ArticleMetricsAfter(article_metrics, c, ts)
           /\ calls' = Append(calls, c)
    /\ threads' = [threads EXCEPT ![t] = IdleFrame]
    /\ UNCHANGED notTrackerVars

NextThreads ==
    \E t \in Threads :
        \/ \E c \in ThreadCalls : T_Enter(t, c)
        \/ T_LoadInvocations(t)
        \/ T_StoreInvocations(t)
        \/ T_LoadErrors(t)
        \/ T_StoreErrors(t)
        \/ T_Rest(t)

(***************************************************************************)
(* ConversationSummarizer and ConversationMemory                           *)
(***************************************************************************)
\* Bound of the memory model
MaxSaves == 3           \* save_context calls explored

\* max_chunk_size of _chunk_messages
MaxChunkSize == 10

\* Message texts explored, the text an LLM summary comes back as, and the
\* fixed text summarize_messages returns when the LLM call fails.
Texts == {"", "hi", "long text"}
SummaryText == "summary"
PlaceholderText == "[Previous conversation summarized due to length]"

\* Token count of a text (tokenizer.encode), on the scale of the
\* max_tokens values explored
TokensOf(text) ==
    CASE text = "" -> 0
      [] text = "hi" -> 1
      [] text = "long text" -> 3
      [] text = SummaryText -> 1
      [] text = PlaceholderText -> 2

\* Constructor arguments explored:
\* <<max_messages, max_tokens, enable_summarization, tokenizer importable>>
MemConfigs == { <<4, 6, TRUE, TRUE>>, <<4, 6, TRUE, FALSE>>,
                <<4, 4, FALSE, TRUE>>, <<2, 6, FALSE, FALSE>>,
                <<3, 6, FALSE, FALSE>> }

HumanMessage(text) == [class |-> "HumanMessage", content |-> text]
AIMessage(text) == [class |-> "AIMessage", content |-> text]

\* MessageMetadata(custom_metadata={"role": role})
MessageMetadata(role) == [role |-> role]

RECURSIVE SumContentTokens(_)
SumContentTokens(msgs) ==
    IF msgs = <<>> THEN 0
    ELSE TokensOf(msgs[1].content) + SumContentTokens(Tail(msgs))

\* Mutant of should_summarize: a total at the threshold counts as over it.
should_summarize_AtThreshold(msgs, maxTok) == SumContentTokens(msgs) * 10 >= maxTok * 7

\* ConversationSummarizer.should_summarize: total > max_tokens * 0.7
should_summarize(msgs, maxTok) == SumContentTokens(msgs) * 10 > maxTok * 7

\* ConversationSummarizer._chunk_messages
RECURSIVE _chunk_messages(_, _)
_chunk_messages(msgs, size) ==
    IF msgs = <<>> THEN <<>>
    ELSE <<Take(msgs, size)>> \o _chunk_messages(Drop(msgs, size), size)

\* Mutant of summarize_messages: the placeholder is tagged as a summary.
summarize_messages_Untagged(chunk, llmOk) ==
    IF llmOk
    THEN [content |-> SummaryText, role |-> None, type |-> "summary"]
    ELSE [content |-> PlaceholderText, role |-> None, type |-> "summary"]

\* ConversationSummarizer.summarize_messages: the summary entry (it has no
\* "role" key), or the placeholder when the LLM call raises.
summarize_messages(chunk, llmOk) ==
    IF llmOk
    THEN [content |-> SummaryText, role |-> None, type |-> "summary"]
    ELSE [content |-> PlaceholderText, role |-> None, type |-> "summary_error"]

RECURSIVE ProcessChunks(_, _, _)
ProcessChunks(chunks, maxTok, llmOk) ==
    IF chunks = <<>> THEN <<>>
    ELSE (IF should_summarize(chunks[1], maxTok)
          THEN <<summarize_messages(chunks[1], llmOk)>>
          ELSE chunks[1])
         \o ProcessChunks(Tail(chunks), maxTok, llmOk)

\* ConversationSummarizer.process_messages
process_messages(msgs, maxTok, llmOk) ==
    IF ~should_summarize(msgs, maxTok) THEN msgs
    ELSE ProcessChunks(_chunk_messages(msgs, MaxChunkSize), maxTok, llmOk)

\* messages_dict of _process_for_summarization
MessageDict(m) ==
    [content |-> m.content,
     role |-> IF m.class = "HumanMessage" THEN "user"
              ELSE IF m.class = "AIMessage" THEN "assistant" ELSE "system",
     type |-> None]

MessagesDict(msgs) == [i \in 1..Len(msgs) |-> MessageDict(msgs[i])]

\* The turn one processed entry is rebuilt as
RebuiltMessage(e) ==
    IF e.type = "summary" THEN AIMessage(e.content)
    ELSE LET role == IF e.role = None THEN "user" ELSE e.role
         IN  IF role = "user" THEN HumanMessage(e.content) ELSE AIMessage(e.content)

Rebuilt(processed) == [i \in 1..Len(processed) |-> RebuiltMessage(processed[i])]

\* _prune_messages: the count pass
MemPruneByCount(msgs, metas, maxMsgs) ==
    IF Len(msgs) > maxMsgs
    THEN LET excess == Len(msgs) - maxMsgs
         IN  <<Drop(msgs, excess), Drop(metas, excess)>>
    ELSE <<msgs, metas>>

\* _prune_messages: the token pass (while True ... drop the oldest pair)
RECURSIVE MemPruneByTokens(_, _, _)
MemPruneByTokens(msgs, metas, maxTok) ==
    IF SumContentTokens(msgs) <= maxTok \/ Len(msgs) <= 1
    THEN <<msgs, metas>>
    ELSE MemPruneByTokens(Drop(msgs, 2), Drop(metas, 2), maxTok)

\* ConversationMemory._prune_messages; the result is <<messages, metadata>>
_prune_messages(msgs, metas, cfg) ==
    LET byCount == MemPruneByCount(msgs, metas, cfg.max_messages)
    IN  IF cfg.max_tokens > 0 /\ cfg.tokenizer
        THEN MemPruneByTokens(byCount[1], byCount[2], cfg.max_tokens)
        ELSE byCount

\* Files of persist_dir
Absent == [kind |-> "absent"]
Partial == [kind |-> "partial"]

\* _serialize_message / meta.dict()
_serialize_message(m) == [type |-> m.class, content |-> m.content]

\* data of _persist, as written by json.dump
Snapshot(msgs, metas) ==
    [kind |-> "json",
     messages |-> [i \in 1..Len(msgs) |-> _serialize_message(msgs[i])],
     metadata |-> metas]

\* _deserialize_message
_deserialize_message(d) ==
    IF d.type \in {"HumanMessage", "AIMessage", "SystemMessage"}
    THEN [class |-> d.type, content |-> d.content]
    ELSE [class |-> "BaseMessage", content |-> d.content]

\* _load_history on a fresh instance: <<messages, metadata>>.  A missing file
\* is skipped; a file json.load rejects is reported and skipped.
_load_history(file) ==
    IF file.kind = "json"
    THEN <<[i \in 1..Len(file.messages) |-> _deserialize_message(file.messages[i])],
           file.metadata>>
    ELSE <<(<<>>), (<<>>)>>

MemIdleFrame == [pc |-> "idle"]

\* A ConversationMemory that is constructed and never used
MemIdle ==
    /\ mem_config = [max_messages |-> 4, max_tokens |-> 6,
                     enable_summarization |-> TRUE, tokenizer |-> TRUE]
    /\ chat_messages = <<>>
    /\ metadata_store = <<>>
    /\ disk = [history |-> Absent, tmp |-> Absent]
    /\ mem_frame = MemIdleFrame
    /\ mem_returned = "__init__"
    /\ saves = 0

\* ConversationMemory.__init__ on an empty persist_dir
MemInit ==
    /\ \E c \in MemConfigs :
          mem_config = [max_messages |-> c[1], max_tokens |-> c[2],
                        enable_summarization |-> c[3], tokenizer |-> c[4]]
    /\ chat_messages = <<>>
    /\ metadata_store = <<>>
    /\ disk = [history |-> Absent, tmp |-> Absent]
    /\ mem_frame = MemIdleFrame
    /\ mem_returned = "__init__"
    /\ saves = 0

\* Entry of _persist: data is built from the turns and metadata in memory;
\* "after" is where the caller continues, "op" the public operation running.
PersistFrame(msgs, metas, after, op, rest) ==
    [pc |-> "persist_open", data |-> Snapshot(msgs, metas), before |-> disk.history,
     after |-> after, op |-> op, processed |-> rest]

\* The metadata save_context appends for one turn pair
MetadataFor(human_message, ai_message) ==
    (IF human_message # "" THEN <<MessageMetadata("human")>> ELSE <<>>)
        \o (IF ai_message # "" THEN <<MessageMetadata("ai")>> ELSE <<>>)

\* ConversationMemory.save_context up to its first _persist: the parent
\* appends the two turns, the metadata is appended, then either the
\* summarizer shortened the history (clear() empties both lists and persists,
\* and the rebuild follows; the frame then also says whether the LLM call of
\* the summarizer went through) or the history is pruned and persisted.
save_context(human_message, ai_message, llmOk) ==
    /\ mem_frame.pc = "idle"
    /\ saves < MaxSaves
    /\ saves' = saves + 1
    /\ LET msgs  == chat_messages \o <<HumanMessage(human_message), AIMessage(ai_message)>>
           metas == metadata_store \o MetadataFor(human_message, ai_message)
           processed == process_messages(MessagesDict(msgs), mem_config.max_tokens, llmOk)
       IN  IF mem_config.enable_summarization /\ Len(processed) < Len(msgs)
           THEN /\ chat_messages' = <<>>
                /\ metadata_store' = <<>>
                /\ mem_frame' = PersistFrame(<<>>, <<>>, "rebuild", "save_context", processed)
                                   @@ [llm_ok |-> llmOk]
           ELSE LET pruned == _prune_messages(msgs, metas, mem_config)
                IN  /\ chat_messages' = pruned[1]
                    /\ metadata_store' = pruned[2]
                    /\ mem_frame' = PersistFrame(pruned[1], pruned[2], "return",
                                                 "save_context", <<>>)
    /\ UNCHANGED <<mem_config, disk, mem_returned, notMemVars>>

\* _process_for_summarization after clear(): the processed entries are added
\* back as turns (no metadata is added for them), or the first add raises
\* (the keyword arguments content=/metadata= are not ones the chat history of
\* every library version takes) and the except clause leaves the history
\* empty; then save_context prunes and persists.  The frame of this second
\* _persist also keeps what the call found on disk when it was entered
\* (entry), the processed entries and the turn list as rebuilt from them.
Rebuild(addOk) ==
    /\ mem_frame.pc = "rebuild"
    /\ LET msgs   == IF addOk THEN Rebuilt(mem_frame.processed) ELSE <<>>
           pruned == _prune_messages(msgs, metadata_store, mem_config)
       IN  /\ chat_messages' = pruned[1]
           /\ metadata_store' = pruned[2]
           /\ mem_frame' = [pc |-> "persist_open",
                            data |-> Snapshot(pruned[1], pruned[2]),
                            before |-> disk.history,
                            after |-> "return",
                            op |-> "save_context",
                            processed |-> mem_frame.processed,
                            entry |-> mem_frame.entry,
                            llm_ok |-> mem_frame.llm_ok,
                            rebuilt |-> msgs]
    /\ UNCHANGED <<mem_config, disk, mem_returned, saves, notMemVars>>

\* ConversationMemory.clear
clear ==
    /\ mem_frame.pc = "idle"
    /\ chat_messages # <<>>
    /\ chat_messages' = <<>>
    /\ metadata_store' = <<>>
    /\ mem_frame' = PersistFrame(<<>>, <<>>, "return", "clear", <<>>)
    /\ UNCHANGED <<mem_config, disk, mem_returned, saves, notMemVars>>

\* Where _persist's caller continues
AfterPersist ==
    IF mem_frame.after = "return"
    THEN MemIdleFrame
    ELSE [pc |-> "rebuild", processed |-> mem_frame.processed, entry |-> mem_frame.before,
          llm_ok |-> mem_frame.llm_ok]

ReturnedAfterPersist ==
    IF mem_frame.after = "return" THEN mem_frame.op ELSE mem_returned

\* Mutant of DiskAfterOpen: the snapshot is written in place.
DiskAfterOpen_InPlace(d) == [d EXCEPT !.history = Partial]

\* open(temp_file, 'w'): history.tmp is created or truncated; until json.dump
\* is through it holds a prefix of the document.
DiskAfterOpen(d) == [d EXCEPT !.tmp = Partial]

\* _persist: open the temporary file
PersistOpen ==
    /\ mem_frame.pc = "persist_open"
    /\ disk' = DiskAfterOpen(disk)
    /\ mem_frame' = [mem_frame EXCEPT !.pc = "persist_write"]
    /\ UNCHANGED <<mem_config, chat_messages, metadata_store, mem_returned, saves, notMemVars>>

\* _persist: json.dump completes and the file is closed
PersistWrite ==
    /\ mem_frame.pc = "persist_write"
    /\ disk' = [disk EXCEPT !.tmp = mem_frame.data]
    /\ mem_frame' = [mem_frame EXCEPT !.pc = "persist_replace"]
    /\ UNCHANGED <<mem_config, chat_messages, metadata_store, mem_returned, saves, notMemVars>>

\* _persist: temp_file.replace(self.history_file)
PersistReplace ==
    /\ mem_frame.pc = "persist_replace"
    /\ disk' = [history |-> disk.tmp, tmp |-> Absent]
    /\ mem_frame' = AfterPersist
    /\ mem_returned' = ReturnedAfterPersist
    /\ UNCHANGED <<mem_config, chat_messages, metadata_store, saves, notMemVars>>

\* _persist: open, json.dump or replace raises; the except clause prints the
\* error and _persist returns, leaving the files as they are.
PersistFails ==
    /\ mem_frame.pc \in {"persist_open", "persist_write", "persist_replace"}
    /\ mem_frame' = AfterPersist
    /\ mem_returned' = ReturnedAfterPersist
    /\ UNCHANGED <<mem_config, chat_messages, metadata_store, disk, saves, notMemVars>>

\* The process is killed at any point and started again: __init__ with the
\* same arguments runs _load_history on what is on disk.
CrashAndRestart ==
    /\ disk.history # Absent \/ mem_frame.pc # "idle"
    /\ ~(mem_frame.pc = "idle" /\ mem_returned = "restart")
    /\ LET loaded == _load_history(disk.history)
       IN  /\ chat_messages' = loaded[1]
           /\ metadata_store' = loaded[2]
    /\ mem_frame' = MemIdleFrame
    /\ mem_returned' = "restart"
    /\ UNCHANGED <<mem_config, disk, saves, notMemVars>>

NextMemory ==
    \/ \E h \in Texts, a \in Texts, llmOk \in BOOLEAN : save_context(h, a, llmOk)
    \/ \E addOk \in BOOLEAN : Rebuild(addOk)
    \/ clear
    \/ PersistOpen
    \/ PersistWrite
    \/ PersistReplace
    \/ PersistFails
    \/ CrashAndRestart

\* The steps a running save_context call takes by itself
MemStep ==
    \/ \E addOk \in BOOLEAN : Rebuild(addOk)
    \/ PersistOpen
    \/ PersistWrite
    \/ PersistReplace
    \/ PersistFails

\* save_context calls with the LLM up or down, no clear() and no crash
NextDegrade ==
    \/ \E h \in {"hi", "long text"}, a \in {"hi", "long text"}, llmOk \in BOOLEAN :
          save_context(h, a, llmOk)
    \/ \E addOk \in BOOLEAN : Rebuild(addOk)
    \/ PersistOpen
    \/ PersistWrite
    \/ PersistReplace
    \/ PersistFails

(***************************************************************************)
(* ToolUsageTracker constructed with a storage_path                        *)
(***************************************************************************)
\* Bound of the snapshot model
MaxRestarts == 2        \* trackers constructed on the same path after the first

StoragePath == "tool_usage.json"

JsonFile(data) == [kind |-> "json", data |-> data]

NoCounts == [invocations |-> EmptyDict, errors |-> EmptyDict]

\* A tracker constructed without storage_path (default_tracker)
StoreIdle ==
    /\ storage_path = None
    /\ usage_data = EmptyDict
    /\ usage_file = Absent
    /\ restarts = 0
    /\ previous = NoCounts

\* ToolUsageTracker._load_usage_data
_load_usage_data(path, file) ==
    IF path = None \/ file = Absent THEN EmptyDict
    ELSE IF file.kind = "json" THEN file.data
    ELSE EmptyDict

\* A tracker constructed with storage_path, no file there yet
StoreInit ==
    /\ storage_path = StoragePath
    /\ usage_data = _load_usage_data(StoragePath, Absent)
    /\ usage_file = Absent
    /\ restarts = 0
    /\ previous = NoCounts

\* ToolUsageTracker._save_usage_data: json.dump(self.usage_data) into the
\* file opened for writing.  No method of the tracker calls it.
_save_usage_data ==
    /\ storage_path # None
    /\ usage_file' = JsonFile(usage_data)
    /\ UNCHANGED <<storage_path, usage_data, restarts, previous>>
    /\ UNCHANGED <<trackerVars, threads, ctxVars, memVars, agentVars, queryVars, sessionVars, summaryVars, rankVars,
                 pipelineVars, summarizerVars, pruneVars>>

\* The process ends and a new ToolUsageTracker(storage_path) is constructed
RestartTracker ==
    /\ storage_path # None
    /\ restarts < MaxRestarts
    /\ restarts' = restarts + 1
    /\ previous' = [invocations |-> metrics.invocations, errors |-> metrics.errors]
    /\ usage_data' = _load_usage_data(storage_path, usage_file)
    /\ metrics' = FreshMetrics
    /\ user_sessions' = EmptyDict
    /\ article_metrics' = EmptyDict
    /\ last_tool_used' = EmptyDict
    /\ calls' = <<>>
    /\ UNCHANGED <<storage_path, usage_file>>
    /\ UNCHANGED <<threads, ctxVars, memVars, agentVars, queryVars, sessionVars, summaryVars, rankVars,
                 pipelineVars, summarizerVars, pruneVars>>

SnapshotCalls ==
    {Call(t, None, o[1], o[2], <<>>, EmptyDict) :
        t \in {"vector_store_search", "weather"}, o \in {<<TRUE, None>>, <<FALSE, "timeout">>}}

NextSnapshot ==
    \/ \E c \in SnapshotCalls : log_tool_use(c)
    \/ _save_usage_data
    \/ RestartTracker

(***************************************************************************)
(* AgentService.invoke                                                     *)
(***************************************************************************)
\* Bound of the AgentService model
MaxRequests == 5        \* invoke calls explored

\* The methods class AgentService defines
AgentServiceMethods ==
    {"__init__", "_add_system_context", "_initialize_tools", "_initialize_metrics",
     "get_article_metrics", "get_user_engagement", "get_article_recommendations",
     "_create_agent_executor", "invoke", "_process_tool_usage",
     "_generate_error_response", "switch_session", "get_conversation_history",
     "clear_conversation", "list_sessions"}

\* The methods class ToolUsageTracker defines (self.usage_tracker is one)
ToolUsageTrackerMethods ==
    {"__init__", "_load_usage_data", "_save_usage_data", "log_tool_use",
     "get_tool_metrics", "get_article_metrics", "get_user_engagement",
     "log_article_interaction", "get_article_recommendations", "export_usage_data"}

\* Looking a method up on an object: None when it is there
Lookup(methods, name) == IF name \in methods THEN None ELSE "AttributeError"

\* self.usage_tracker.record_invocation(...) in the except clause of invoke
RecordInvocationOutcome == Lookup(ToolUsageTrackerMethods, "record_invocation")

\* ConversationMemory.__init__: history_file is set only when persist_dir is
\* given, and _load_history, its last statement, calls history_file.exists().
MemoryInitOutcome(persist_dir) == IF persist_dir = None THEN "AttributeError" ELSE None

\* switch_session builds ConversationMemory without a persist_dir
SwitchSessionOutcome == MemoryInitOutcome(None)

\* _process_tool_usage returns a dict naming tool_results, which the
\* function never binds.
ProcessToolUsageOutcome == "NameError"

\* The tools of response["intermediate_steps"], in the order they ran
StepLists == {<<>>, <<"dosha_calculator">>, <<"vector_store_search", "herb_recommender">>}

\* What _process_tool_usage has built when it reaches its return statement:
\* tool_calls is the list of intermediate steps, tool_usage is the dict
\* created empty that no statement of the loop writes to.
ToolData(steps) == [tool_calls |-> steps, tool_usage |-> EmptyDict]

\* The input of one invoke call: the message, whether a session_id naming
\* another session is given, whether the agent executor would raise, and
\* the intermediate steps its answer carries otherwise.
InvokeInputs ==
    [message : {"hello", "connection timeout", ""},
     switch : BOOLEAN,
     executorRaises : BOOLEAN,
     steps : StepLists]

\* The statements of the try block in order, each with the exception it
\* raises (None when it passes)
TryStages(in) ==
    << [stage |-> "switch_session",
        exc |-> IF in.switch THEN SwitchSessionOutcome ELSE None],
       [stage |-> "_enhance_with_context",
        exc |-> Lookup(AgentServiceMethods, "_enhance_with_context")],
       [stage |-> "_generate_response",
        exc |-> IF Lookup(AgentServiceMethods, "_generate_response") # None
                THEN "AttributeError"
                ELSE IF in.executorRaises THEN "Exception" ELSE None],
       [stage |-> "_process_tool_usage", exc |-> ProcessToolUsageOutcome],
       [stage |-> "get_stats",
        exc |-> Lookup(ToolUsageTrackerMethods, "get_stats")] >>

Failing(stages) == {i \in 1..Len(stages) : stages[i].exc # None}

\* The exception the try block ends with, None when it reaches its return
TryOutcome(in) ==
    LET stages == TryStages(in)
    IN  IF Failing(stages) = {} THEN [stage |-> "return", exc |-> None]
        ELSE stages[CHOOSE i \in Failing(stages) : \A j \in Failing(stages) : i <= j]

\* The dict invoke returns from its except clause
ErrorResponse ==
    [kind |-> "returned",
     keys |-> {"response", "error", "metadata", "metrics", "session_id"},
     metadata |-> {"error", "timestamp", "user_id", "session_id", "stack_trace"},
     metrics_error |-> TRUE]

\* The dict invoke returns from its try block
SuccessResponse ==
    [kind |-> "returned",
     keys |-> {"response", "session_id", "metadata", "metrics"},
     metrics_error |-> FALSE]

Raised(exc) == [kind |-> "raised", exc |-> exc]

NoResult == [kind |-> "none"]

AgentIdleFrame == [pc |-> "idle"]

\* An AgentService that is constructed and never used
AgentIdle ==
    /\ total_requests = 0
    /\ invoke_frame = AgentIdleFrame
    /\ invoke_result = NoResult

\* invoke is entered: start_time is taken, total_requests is counted
InvokeEnter(in) ==
    /\ invoke_frame.pc = "idle"
    /\ total_requests < MaxRequests
    /\ total_requests' = total_requests + 1
    /\ invoke_frame' = [pc |-> "try", input |-> in]
    /\ invoke_result' = NoResult
    /\ UNCHANGED notAgentVars

\* The try block runs to its return or to the first statement that raises
InvokeTry ==
    /\ invoke_frame.pc = "try"
    /\ LET out == TryOutcome(invoke_frame.input)
       IN  IF out.exc = None
           THEN /\ invoke_frame' = AgentIdleFrame
                /\ invoke_result' = SuccessResponse
           ELSE /\ invoke_frame' = [pc |-> "except", input |-> invoke_frame.input,
                                    stage |-> out.stage, exc |-> out.exc]
                /\ invoke_result' = invoke_result
    /\ UNCHANGED <<total_requests, notAgentVars>>

\* The except clause: record_invocation first; an exception it raises leaves
\* invoke.  Otherwise the error is saved and answered (both in their own
\* try blocks) and the error dict is returned.
InvokeExcept ==
    /\ invoke_frame.pc = "except"
    /\ invoke_result' = IF RecordInvocationOutcome # None
                        THEN Raised(RecordInvocationOutcome)
                        ELSE ErrorResponse
    /\ invoke_frame' = AgentIdleFrame
    /\ UNCHANGED <<total_requests, notAgentVars>>

NextAgent ==
    \/ \E in \in InvokeInputs : InvokeEnter(in)
    \/ InvokeTry
    \/ InvokeExcept

(***************************************************************************)
(* AgentService.switch_session                                             *)
(***************************************************************************)
\* Bound of the session model
MaxTurns == 3           \* turns saved into the agent's memory

SessionIds == {"s1", "s2", "s3"}
PersistDir == "./data/conversations"

\* A ConversationMemory object: its identity, its fields and its turns
MemoryObject(id, session_id, persist_dir, messages) ==
    [id |-> id, session_id |-> session_id, persist_dir |-> persist_dir,
     messages |-> messages]

\* AgentService.__init__: self.memory is built with persist_dir and a
\* generated session id, and the executor is created with memory=self.memory
SessionIdle ==
    /\ agent_memory = MemoryObject(0, "session_0", PersistDir, <<>>)
    /\ executor_memory = 0
    /\ session_file = Absent
    /\ switch_result = [kind |-> "none"]

\* self.memory.save_context(...): the turn is appended and persisted (the
\* limits of 30 turns and 6000 tokens are not reached by the turns explored)
AgentSaveContext(text) ==
    /\ Len(agent_memory.messages) < MaxTurns
    /\ agent_memory' = [agent_memory EXCEPT !.messages = Append(@, text)]
    /\ session_file' = IF agent_memory.persist_dir # None
                       THEN JsonFile(agent_memory'.messages)
                       ELSE session_file
    /\ UNCHANGED <<executor_memory, switch_result>>
    /\ UNCHANGED <<ctxVars, trackerVars, threads, memVars, agentVars, queryVars, storeVars, summaryVars, rankVars,
                 pipelineVars, summarizerVars, pruneVars>>

\* AgentService.switch_session: _persist in a try block (persisted says
\* whether the write went through), then the new ConversationMemory, then
\* the executor is repointed.  The caller sees the return or the exception
\* together with the two references as they are at that moment.
switch_session(session_id, persisted) ==
    /\ LET out == SwitchSessionOutcome
           new == MemoryObject(agent_memory.id + 1, session_id, None, <<>>)
           mem == IF out = None THEN new ELSE agent_memory
           exe == IF out = None THEN new.id ELSE executor_memory
       IN  /\ agent_memory' = mem
           /\ executor_memory' = exe
           /\ switch_result' =
                 [kind |-> IF out = None THEN "returned" ELSE "raised",
                  exc |-> out,
                  session_id |-> session_id,
                  unused |-> session_id # agent_memory.session_id,
                  memory |-> mem,
                  executor_memory |-> exe,
                  previous_turns |-> Range(agent_memory.messages)]
    /\ session_file' = IF persisted /\ agent_memory.persist_dir # None
                       THEN JsonFile(agent_memory.messages)
                       ELSE session_file
    /\ UNCHANGED <<ctxVars, trackerVars, threads, memVars, agentVars, queryVars, storeVars, summaryVars, rankVars,
                 pipelineVars, summarizerVars, pruneVars>>

NextSession ==
    \/ \E text \in {"hi", "long text"} : AgentSaveContext(text)
    \/ \E sid \in SessionIds, persisted \in BOOLEAN : switch_session(sid, persisted)

(***************************************************************************)
(* RecommendationService: fusion of base and personalized results          *)
(***************************************************************************)
\* Bounds of the ranking models
MaxBase == 3            \* length of the base list in the small model
MaxPersonal == 2        \* length of the personal list in the small model
MaxTopK == 6            \* top_k in the model of the lists the pipeline passes

\* A search result: metadata['id'] (None when the store gives none) and the
\* identity of the Python object
Doc(id, obj) == [id |-> id, obj |-> obj]

\* doc.metadata.get('id') or id(doc)
DocId(doc) == IF Truthy(doc.id) THEN doc.id ELSE doc.obj

\* 1.0 - (i * 0.1) in tenths, i counted from 0
RankScore(i) == 10 - i

\* personalization_weight is given in tenths; scores are in hundredths.
Weights == {0, 3, 10}

Position(entries, doc_id) ==
    CHOOSE k \in 1..Len(entries) : entries[k].doc_id = doc_id

HasKey(entries, doc_id) == \E k \in 1..Len(entries) : entries[k].doc_id = doc_id

\* dict assignment scores[doc_id] = entry: a new key goes last, an existing
\* key keeps its place
SetEntry(entries, e) ==
    IF HasKey(entries, e.doc_id)
    THEN [entries EXCEPT ![Position(entries, e.doc_id)] = e]
    ELSE Append(entries, e)

\* The loop over base_results from index i on (i counted from 0)
RECURSIVE ScoreBase(_, _, _)
ScoreBase(base_results, i, entries) ==
    IF i >= Len(base_results) THEN entries
    ELSE LET doc == base_results[i + 1]
         IN  ScoreBase(base_results, i + 1,
                       SetEntry(entries, [doc_id |-> DocId(doc), doc |-> doc,
                                          score |-> 10 * RankScore(i),
                                          source |-> "base"]))

\* Mutant of BoostEntry: the personal score replaces the base score.
BoostEntry_Replace(entries, doc, i, weight) ==
    SetEntry(entries, [doc_id |-> DocId(doc), doc |-> doc,
                       score |-> weight * RankScore(i), source |-> "personal"])

\* One step of the loop over personal_results
BoostEntry(entries, doc, i, weight) ==
    IF HasKey(entries, DocId(doc))
    THEN LET k == Position(entries, DocId(doc))
         IN  [entries EXCEPT ![k].score = @ + weight * RankScore(i),
                             ![k].source = "both"]
    ELSE Append(entries, [doc_id |-> DocId(doc), doc |-> doc,
                          score |-> weight * RankScore(i), source |-> "personal"])

RECURSIVE BoostPersonal(_, _, _, _)
BoostPersonal(personal_results, i, entries, weight) ==
    IF i >= Len(personal_results) THEN entries
    ELSE BoostPersonal(personal_results, i + 1,
                       BoostEntry(entries, personal_results[i + 1], i, weight), weight)

\* One formatted recommendation
Recommendation(e) ==
    [doc |-> e.doc, relevance_score |-> e.score, recommendation_source |-> e.source]

\* RecommendationService._rank_recommendations
_rank_recommendations(base_results, personal_results, personalization_weight) ==
    LET scores == BoostPersonal(personal_results, 0,
                                ScoreBase(base_results, 0, <<>>),
                                personalization_weight)
        sorted == SortByScoreDesc(scores)
    IN  [k \in 1..Len(sorted) |-> Recommendation(sorted[k])]

RankInput(base, personal, weight) ==
    [base_results |-> base, personal_results |-> personal,
     personalization_weight |-> weight]

\* No fusion asked for
RankIdle ==
    /\ rank_input = RankInput(<<>>, <<>>, 0)
    /\ ranked = [kind |-> "none"]

\* The two searches build their own objects for the same stored document;
\* document E carries no id.
BaseDocs == {Doc("A", "base-A"), Doc("B", "base-B"), Doc("C", "base-C"),
             Doc("D", "base-D"), Doc(None, "base-E")}
PersonalDocs == {Doc("A", "pers-A"), Doc("B", "pers-B"), Doc("C", "pers-C"),
                 Doc("D", "pers-D"), Doc(None, "pers-E")}

\* Result lists of at most n entries, every document at most once
ResultLists(docs, n) ==
    UNION {{l \in [1..k -> docs] : \A i, j \in 1..k : i # j => l[i] # l[j]} : k \in 0..n}

\* Any pair of short lists and any weight
RankInit ==
    /\ \E base \in ResultLists(BaseDocs, MaxBase),
          personal \in ResultLists(PersonalDocs, MaxPersonal),
          weight \in Weights :
          rank_input = RankInput(base, personal, weight)
    /\ ranked = [kind |-> "none"]

\* Document number n as one of the searches returns it
NumberedDoc(n, search) == Doc(ToString(n), <<search, n>>)

\* The personal list of n documents: the base documents in the same order,
\* in reverse order, or starting at the last base document
PersonalList(order, n, nBase) ==
    [j \in 1..n |-> NumberedDoc(CASE order = "same" -> j
                                  [] order = "reversed" -> n + 1 - j
                                  [] order = "shifted" -> Max(nBase, 1) - 1 + j,
                                "personal")]

\* The lists get_personalized_recommendations passes: up to 3*top_k base
\* results and up to 2*top_k personal results
FusionInit ==
    /\ \E top_k \in 1..MaxTopK, order \in {"same", "reversed", "shifted"},
          weight \in Weights :
          \E nBase \in {0, top_k, 3 * top_k}, nPersonal \in {0, 1, 2 * top_k} :
             rank_input = RankInput([i \in 1..nBase |-> NumberedDoc(i, "base")],
                                    PersonalList(order, nPersonal, nBase), weight)
    /\ ranked = [kind |-> "none"]

\* The call of _rank_recommendations on the lists
RankRecommendations ==
    /\ ranked.kind = "none"
    /\ ranked' = [kind |-> "returned",
                  items |-> _rank_recommendations(rank_input.base_results,
                                                  rank_input.personal_results,
                                                  rank_input.personalization_weight)]
    /\ UNCHANGED <<rank_input, notRankVars>>

NextRank == RankRecommendations

(***************************************************************************)
(* RecommendationService.get_personalized_recommendations                  *)
(***************************************************************************)
\* Bound of the pipeline model
MaxResults == 2         \* documents a similarity search returns, and top_k

\* The statements of the try block that can raise, in order.
\* get_user_preferences is not among them: it catches what its lookup
\* raises and returns {}.
PipelineSteps ==
    << "generate_embedding_query", "_add_personalization_context",
       "embed_query(base_query)", "embed_query(personalized_query)",
       "similarity_search(base)", "similarity_search(personal)",
       "_rank_recommendations", "personalized_tags" >>

\* The locals bound when the given step raises: base_query is assigned by
\* the first statement that can raise
BaseQueryBound(step) == step # "generate_embedding_query"

\* The documents the store returns for the base query, best first
StoreDocs == <<Doc("A", "base-A"), Doc("B", "base-B")>>

\* RecommendationService._get_fallback_recommendations: any exception of
\* the embedding or the search gives []
_get_fallback_recommendations(top_k, embedOk, searchOk, found) ==
    IF embedOk /\ searchOk
    THEN LET results == Take(Take(StoreDocs, found), top_k)
         IN  [i \in 1..Len(results) |->
                 [doc |-> results[i], relevance_score |-> 10 * RankScore(i - 1),
                  fallback |-> TRUE]]
    ELSE <<>>

\* The list of the try block: the fused ranking cut to top_k (its entries
\* carry no fallback key)
PersonalizedList(top_k, found, weight) ==
    LET fused == _rank_recommendations(Take(StoreDocs, found),
                                       Take(<<Doc("B", "pers-B")>>, found), weight)
    IN  [i \in 1..Min(top_k, Len(fused)) |->
            [doc |-> fused[i].doc, relevance_score |-> fused[i].relevance_score,
             fallback |-> FALSE]]

\* One call: the step that raises (None when none does), whether the
\* preference lookup failed inside get_user_preferences, and what the
\* embedding and the search of the fallback do
RecRequests ==
    [raises : {None} \cup Range(PipelineSteps),
     lookup_fails : BOOLEAN,
     top_k : 1..MaxResults,
     fallback_embed_ok : BOOLEAN,
     fallback_search_ok : BOOLEAN,
     found : 0..MaxResults]

NoRequest ==
    [raises |-> None, lookup_fails |-> FALSE, top_k |-> 1,
     fallback_embed_ok |-> TRUE, fallback_search_ok |-> TRUE, found |-> 0]

PipelineIdle ==
    /\ rec_request = NoRequest
    /\ rec_result = [kind |-> "none"]

PipelineInit ==
    /\ rec_request \in RecRequests
    /\ rec_result = [kind |-> "none"]

\* RecommendationService.get_personalized_recommendations: the except
\* clause passes base_query to the fallback, which is an UnboundLocalError
\* when the statement that assigns it is the one that raised.
get_personalized_recommendations ==
    /\ rec_result.kind = "none"
    /\ rec_result' =
          IF rec_request.raises = None
          THEN [kind |-> "returned",
                items |-> PersonalizedList(rec_request.top_k, rec_request.found, 3)]
          ELSE IF ~BaseQueryBound(rec_request.raises)
          THEN [kind |-> "raised", exc |-> "UnboundLocalError"]
          ELSE [kind |-> "returned",
                items |-> _get_fallback_recommendations(
                              rec_request.top_k, rec_request.fallback_embed_ok,
                              rec_request.fallback_search_ok, rec_request.found)]
    /\ UNCHANGED <<rec_request, notPipelineVars>>

NextPipeline == get_personalized_recommendations

(***************************************************************************)
(* ConversationSummarizer.process_messages on its own                      *)
(***************************************************************************)
\* Bound of the summarizer model
MaxMessages == 4        \* length of the message list handed to process_messages

\* max_tokens values explored (summary_threshold is 0.7)
SummarizerBudgets == {4, 6, 10}

\* The message dictionaries explored
MessageDicts ==
    {[content |-> text, role |-> role, type |-> None] :
        text \in Texts, role \in {"user", "assistant"}}

MessageLists == UNION {[1..n -> MessageDicts] : n \in 0..MaxMessages}

\* self.llm.invoke calls process_messages makes: one per chunk summarized
LlmCalls(msgs, maxTok) ==
    IF ~should_summarize(msgs, maxTok) THEN 0
    ELSE LET chunks == _chunk_messages(msgs, MaxChunkSize)
         IN  Cardinality({c \in 1..Len(chunks) : should_summarize(chunks[c], maxTok)})

\* No list handed to the summarizer
SummarizerIdle ==
    /\ summarizer_input = [messages |-> <<>>, max_tokens |-> 4, llm_ok |-> TRUE]
    /\ summarizer_result = [kind |-> "none"]

SummarizerInit ==
    /\ \E msgs \in MessageLists, maxTok \in SummarizerBudgets, llmOk \in BOOLEAN :
          summarizer_input = [messages |-> msgs, max_tokens |-> maxTok, llm_ok |-> llmOk]
    /\ summarizer_result = [kind |-> "none"]

\* The call summarizer.process_messages(messages, user_id, session_id)
ProcessMessages ==
    /\ summarizer_result.kind = "none"
    /\ summarizer_result' =
          [kind |-> "returned",
           messages |-> process_messages(summarizer_input.messages,
                                         summarizer_input.max_tokens,
                                         summarizer_input.llm_ok),
           llm_calls |-> LlmCalls(summarizer_input.messages, summarizer_input.max_tokens)]
    /\ UNCHANGED <<summarizer_input, notSummarizerVars>>

NextSummarizer == ProcessMessages

(***************************************************************************)
(* Specifications: one per component, the others left as constructed       *)
(***************************************************************************)
InitCtx ==
    /\ CtxInit /\ TrackerFresh /\ ThreadsIdle /\ MemIdle /\ AgentIdle
    /\ StoreIdle /\ SessionIdle /\ SummaryIdle /\ RankIdle /\ PipelineIdle
    /\ SummarizerIdle /\ PruneIdle

\* One ContextManager through add_message calls
SpecCtx == InitCtx /\ [][CtxNext]_vars

\* add_message calls with the token pass run one iteration at a time; the
\* thread inside add_message keeps running, so a loop step that is possible
\* is eventually taken
SpecLoop == InitCtx /\ [][NextLoop]_vars /\ WF_vars(LoopStep)

InitTracker ==
    /\ CtxIdle /\ TrackerFresh /\ ThreadsIdle /\ MemIdle /\ AgentIdle
    /\ StoreIdle /\ SessionIdle /\ SummaryIdle /\ RankIdle /\ PipelineIdle
    /\ SummarizerIdle /\ PruneIdle

InitWindow ==
    /\ CtxIdle /\ TrackerWarm /\ ThreadsIdle /\ MemIdle /\ AgentIdle
    /\ StoreIdle /\ SessionIdle /\ SummaryIdle /\ RankIdle /\ PipelineIdle
    /\ SummarizerIdle /\ PruneIdle

\* More calls on a tracker whose response-time window is about to fill
SpecWindow == InitWindow /\ [][NextWindow]_vars

\* Tool calls with outcomes, and article interactions
SpecTracker == InitTracker /\ [][NextTracker]_vars

\* Successful calls of several tools by several users
SpecCoUse == InitTracker /\ [][NextCoUse]_vars

\* Calls that carry article metadata, with and without a user id
SpecArticle == InitTracker /\ [][NextArticle]_vars

\* Request threads calling log_tool_use on one tracker
SpecThreads == InitTracker /\ [][NextThreads]_vars

InitMemory ==
    /\ CtxIdle /\ TrackerFresh /\ ThreadsIdle /\ MemInit /\ AgentIdle
    /\ StoreIdle /\ SessionIdle /\ SummaryIdle /\ RankIdle /\ PipelineIdle
    /\ SummarizerIdle /\ PruneIdle

\* One ConversationMemory with a persist_dir, through calls, failures of
\* the disk and restarts of the process
SpecMemory == InitMemory /\ [][NextMemory]_vars

\* Turns saved with the summarizer's LLM up or down; the thread inside
\* save_context keeps running until the call returns
SpecDegrade == InitMemory /\ [][NextDegrade]_vars /\ WF_vars(MemStep)

InitAgent ==
    /\ CtxIdle /\ TrackerFresh /\ ThreadsIdle /\ MemIdle /\ AgentIdle
    /\ StoreIdle /\ SessionIdle /\ SummaryIdle /\ RankIdle /\ PipelineIdle
    /\ SummarizerIdle /\ PruneIdle

\* One AgentService through invoke calls
SpecAgent == InitAgent /\ [][NextAgent]_vars

\* One tracker logging article interactions and asked for recommendations
SpecRecs == InitTracker /\ [][NextRecs]_vars

InitSnapshot ==
    /\ CtxIdle /\ TrackerFresh /\ ThreadsIdle /\ MemIdle /\ AgentIdle
    /\ StoreInit /\ SessionIdle /\ SummaryIdle /\ RankIdle /\ PipelineIdle
    /\ SummarizerIdle /\ PruneIdle

\* One storage_path, the trackers constructed on it one after the other
SpecSnapshot == InitSnapshot /\ [][NextSnapshot]_vars

\* One AgentService switching sessions
SpecSession == InitAgent /\ [][NextSession]_vars

\* One ContextManager with its summary and the contexts handed out
SpecContext == InitCtx /\ [][NextContext]_vars

InitRank ==
    /\ CtxIdle /\ TrackerFresh /\ ThreadsIdle /\ MemIdle /\ AgentIdle
    /\ StoreIdle /\ SessionIdle /\ SummaryIdle /\ RankInit /\ PipelineIdle
    /\ SummarizerIdle /\ PruneIdle

\* _rank_recommendations on every pair of short result lists
SpecRank == InitRank /\ [][NextRank]_vars

InitFusion ==
    /\ CtxIdle /\ TrackerFresh /\ ThreadsIdle /\ MemIdle /\ AgentIdle
    /\ StoreIdle /\ SessionIdle /\ SummaryIdle /\ FusionInit /\ PipelineIdle
    /\ SummarizerIdle /\ PruneIdle

\* _rank_recommendations on lists as long as the pipeline passes
SpecFusion == InitFusion /\ [][NextRank]_vars

InitPipeline ==
    /\ CtxIdle /\ TrackerFresh /\ ThreadsIdle /\ MemIdle /\ AgentIdle
    /\ StoreIdle /\ SessionIdle /\ SummaryIdle /\ RankIdle /\ PipelineInit
    /\ SummarizerIdle /\ PruneIdle

\* One get_personalized_recommendations call with every failure
SpecPipeline == InitPipeline /\ [][NextPipeline]_vars

InitSummarizer ==
    /\ CtxIdle /\ TrackerFresh /\ ThreadsIdle /\ MemIdle /\ AgentIdle
    /\ StoreIdle /\ SessionIdle /\ SummaryIdle /\ RankIdle /\ PipelineIdle
    /\ SummarizerInit /\ PruneIdle

\* process_messages on every short message list
SpecSummarizer == InitSummarizer /\ [][NextSummarizer]_vars

(***************************************************************************)
(* Claims about ContextManager                                             *)
(***************************************************************************)
\* The positions the token pass protects: system turns and the last
\* min_recent_messages positions.
AllProtected(h, minRecent) ==
    \A i \in 1..Len(h) : h[i].role = "system" \/ i > Len(h) - minRecent

\* C1 (as stated): after every add_message call the number of non-system
\* turns is at most max_messages and the tokens of the retained turns sum to
\* at most max_tokens, unless fewer than 2 turns remain.
C1_PruningBound_AsStated ==
    /\ NonSystemCount(conversation_history) <= max_messages
    /\ (Len(conversation_history) >= 2
          => SumTokens(conversation_history) <= max_tokens)

\* C1 (amended): after every add_message call the number of non-system turns
\* is at most max_messages, and the tokens of the retained turns sum to at
\* most max_tokens unless fewer than 2 turns remain or every retained turn is
\* a system turn or lies within the last min_recent_messages positions.
C1_PruningBound ==
    /\ NonSystemCount(conversation_history) <= max_messages
    /\ \/ SumTokens(conversation_history) <= max_tokens
       \/ Len(conversation_history) < 2
       \/ AllProtected(conversation_history, min_recent_messages)

\* Witness of C1: the token pass alone has removed a turn (the count limit
\* was never exceeded) and the history is within its token budget.
C1_Witness ==
    /\ Len(added) <= max_messages
    /\ Len(conversation_history) < Len(added)
    /\ Len(conversation_history) >= 2
    /\ SumTokens(conversation_history) <= max_tokens

\* The k most recently added non-system turns
RecentNonSystemAdded(k) ==
    LET nonSys == SelectSeq(added, LAMBDA m : ~IsSystem(m))
    IN  Range(PyTail(nonSys, k))

\* C2 (as stated): after any sequence of add_message calls the
\* min_recent_messages most recently added non-system turns are all still
\* present in conversation_history.
C2_ProtectedTail_AsStated ==
    RecentNonSystemAdded(min_recent_messages) \subseteq Range(conversation_history)

\* C2 (amended): after every add_message call the last min_recent_messages
\* turns of the history as it stood right after the append (system turns
\* counting toward that number) are the last turns of conversation_history,
\* in the same order; neither pruning pass removes any of them.
C2_ProtectedTail ==
    [][ added' # added =>
          PyTail(conversation_history', min_recent_messages) =
          PyTail(Append(conversation_history, added'[Len(added')]),
                 min_recent_messages) ]_vars

\* Witness of C2: more turns were added than max_messages, some were pruned,
\* and the most recently added turns are the tail of the history.
C2_Witness ==
    /\ Len(added) > max_messages
    /\ Len(conversation_history) < Len(added)
    /\ PyTail(conversation_history, min_recent_messages) =
       PyTail(added, min_recent_messages)

(***************************************************************************)
(* Claims about ToolUsageTracker                                           *)
(***************************************************************************)
CountWhere(s, P(_)) == Cardinality({i \in 1..Len(s) : P(s[i])})

\* Number of logged calls of a tool
CallsOf(t) == CountWhere(calls, LAMBDA c : c.tool_name = t)

\* Number of logged calls of a tool made with success=False and a non-empty
\* error string
FailuresOf(t) ==
    CountWhere(calls, LAMBDA c : c.tool_name = t /\ c.success = FALSE
                                   /\ c.error # None /\ c.error # "")

InvocationCount(m, t) == IF t \in DOMAIN m.invocations THEN m.invocations[t] ELSE 0
ErrorCount(m, t) == IF t \in DOMAIN m.errors THEN m.errors[t] ELSE 0

\* C7: over any sequence of log_tool_use / log_article_interaction calls on
\* one tracker, each tool's invocation count and error count never decrease,
\* errors <= invocations, and the reported error_rate lies within [0, 1].
C7_MonotoneBoundedRate ==
    /\ [][\A t \in Tools :
             /\ InvocationCount(metrics', t) >= InvocationCount(metrics, t)
             /\ ErrorCount(metrics', t) >= ErrorCount(metrics, t)]_vars
    /\ [](\A t \in Tools :
             /\ ErrorCount(metrics, t) <= InvocationCount(metrics, t)
             /\ get_tool_metrics(t) # EmptyDict =>
                   LET r == get_tool_metrics(t).error_rate
                   IN  r[2] > 0 /\ 0 <= r[1] /\ r[1] <= r[2])

\* Witness of C7: a tool with both failed and successful calls on record.
C7_Witness ==
    \E t \in Tools :
        /\ ErrorCount(metrics, t) >= 1
        /\ InvocationCount(metrics, t) > ErrorCount(metrics, t)
        /\ get_tool_metrics(t).error_rate = <<ErrorCount(metrics, t), InvocationCount(metrics, t)>>

\* C8: after any sequence of log_tool_use calls for a tool, get_tool_metrics
\* reports invocations equal to the number of calls, errors equal to the
\* number of calls with success=False and a non-empty error string, and
\* error_rate = errors / invocations.
C8_ExactCounts ==
    \A t \in Tools :
        CallsOf(t) > 0 =>
            LET m == get_tool_metrics(t)
            IN  /\ m # EmptyDict
                /\ m.invocations = CallsOf(t)
                /\ m.errors = FailuresOf(t)
                /\ m.error_rate[1] * CallsOf(t) = FailuresOf(t) * m.error_rate[2]

\* Witness of C8: three successes, then one failure with error "timeout":
\* invocations 4, errors 1, error_rate 1/4.
C8_Witness ==
    /\ Len(calls) = 4
    /\ \A i \in 1..4 : calls[i].tool_name = "vector_store_search"
    /\ \A i \in 1..3 : calls[i].success
    /\ ~calls[4].success /\ calls[4].error = "timeout"
    /\ get_tool_metrics("vector_store_search").invocations = 4
    /\ get_tool_metrics("vector_store_search").errors = 1
    /\ get_tool_metrics("vector_store_search").error_rate = <<1, 4>>

FrequentlyUsedWith(t) ==
    IF t \in DOMAIN metrics.concurrent_usage THEN metrics.concurrent_usage[t] ELSE {}

\* C9: tool co-occurrence is symmetric: whenever tool B is in the
\* "frequently used with" set of tool A, tool A is in the set of tool B.
C9_CoOccurrenceSymmetric ==
    \A a \in Tools, b \in Tools :
        b \in FrequentlyUsedWith(a) => a \in FrequentlyUsedWith(b)

ArticleEntry(am, a) == IF a \in DOMAIN am THEN am[a] ELSE FreshArticle

\* C10: every log_tool_use call with tool_name 'article_recommender' whose
\* metadata carries an article_id (with or without a user_id) increments that
\* article's views by exactly 1 and exactly the one of likes/shares/saves
\* named by interaction_type, leaving the other counters and all other
\* articles' entries unchanged.
C10_ArticleUpdate ==
    [][ calls' # calls =>
          LET c == calls'[Len(calls')]
          IN  (c.tool_name = "article_recommender" /\ "article_id" \in DOMAIN c.metadata) =>
                LET a    == c.metadata["article_id"]
                    kind == IF "interaction_type" \in DOMAIN c.metadata
                            THEN c.metadata["interaction_type"] ELSE None
                    old  == ArticleEntry(article_metrics, a)
                    new  == ArticleEntry(article_metrics', a)
                    step(k) == IF kind = k THEN 1 ELSE 0
                IN  /\ new.views = old.views + 1
                    /\ new.likes = old.likes + step("like")
                    /\ new.shares = old.shares + step("share")
                    /\ new.saves = old.saves + step("save")
                    /\ \A b \in Articles \ {a} :
                          ArticleEntry(article_metrics', b) = ArticleEntry(article_metrics, b)
      ]_vars

\* C6: when several threads call log_tool_use on the same tracker
\* concurrently, no update is lost: once N calls for a tool have completed
\* (and none is in progress), invocations[tool] = N, and likewise the error
\* count equals the number of completed failed calls.
C6_NoLostUpdate ==
    (\A t \in Threads : threads[t].pc = "idle") =>
        \A tool \in Tools :
            /\ InvocationCount(metrics, tool) = CallsOf(tool)
            /\ ErrorCount(metrics, tool) = FailuresOf(tool)

(***************************************************************************)
(* Claims about ConversationMemory                                         *)
(***************************************************************************)
\* C3: after every save_context call (any inputs/outputs, including empty
\* strings, and including calls in which summarization rebuilds the history
\* or pruning removes turns), len(chat_memory.messages) == len(metadata_store).
C3_MetadataParity ==
    (mem_frame.pc = "idle" /\ mem_returned = "save_context") =>
        Len(chat_messages) = Len(metadata_store)

InPersist == mem_frame.pc \in {"persist_open", "persist_write", "persist_replace"}

\* C4: if the process crashes at any point inside _persist(), a subsequent
\* load of history.json yields either the complete previous snapshot or the
\* complete new snapshot (the turns and metadata being persisted), never a
\* partial or corrupted one.
C4_AtomicPersist ==
    /\ disk.history.kind \in {"absent", "json"}
    /\ InPersist =>
          \/ _load_history(disk.history) = _load_history(mem_frame.before)
          \/ _load_history(disk.history) = <<chat_messages, metadata_store>>

\* Witness of C4: _persist is between opening history.tmp and finishing the
\* dump (the temp file is truncated) while history.json holds an earlier,
\* different, complete snapshot.
C4_Witness ==
    /\ mem_frame.pc = "persist_write"
    /\ disk.tmp = Partial
    /\ disk.history.kind = "json"
    /\ disk.history # mem_frame.data
    /\ disk.history.messages # <<>>

(***************************************************************************)
(* Claims about AgentService                                               *)
(***************************************************************************)
\* C5: invoke always returns a structured response and never propagates an
\* exception: for every input and a failure at any stage, the caller gets a
\* dict containing 'response', 'metrics' and 'session_id'.
C5_AlwaysStructured ==
    invoke_result.kind # "none" =>
        /\ invoke_result.kind = "returned"
        /\ {"response", "metrics", "session_id"} \subseteq invoke_result.keys

(***************************************************************************)
(* Claims about article recommendations                                    *)
(***************************************************************************)
\* The articles a user logged an interaction with in the first n calls
InteractedArticles(user_id, n) ==
    {calls[i].metadata["article_id"] :
        i \in {j \in 1..n : calls[j].user_id = user_id /\ TracksArticle(calls[j])}}

\* C11: get_article_recommendations(user_id, limit, exclude_viewed=True)
\* returns a list sorted by score descending, of length <= limit, holding no
\* article the user logged an interaction with before.
C11_ExcludesViewed ==
    (recommendations.kind # "none" /\ recommendations.asked.exclude_viewed) =>
        /\ recommendations.kind = "returned"
        /\ Len(recommendations.items) <= recommendations.asked.limit
        /\ \A i \in 1..(Len(recommendations.items) - 1) :
              recommendations.items[i].score >= recommendations.items[i + 1].score
        /\ \A i \in 1..Len(recommendations.items) :
              recommendations.items[i].article_id \notin
                  InteractedArticles(recommendations.asked.user_id,
                                     recommendations.asked.at)

(***************************************************************************)
(* Claims about the tool-usage snapshot                                    *)
(***************************************************************************)
\* C12: a tracker constructed on the storage_path of an earlier tracker
\* reports the invocation and error counts per tool the earlier one had.
C12_SnapshotRoundTrip ==
    (restarts > 0 /\ calls = <<>>) =>
        \A t \in Tools :
            /\ Get(metrics.invocations, t, 0) = Get(previous.invocations, t, 0)
            /\ Get(metrics.errors, t, 0) = Get(previous.errors, t, 0)

(***************************************************************************)
(* Claims about ConversationMemory pruning                                 *)
(***************************************************************************)
\* An assistant reply (not a summary turn) with no user prompt before it
Orphaned(msgs, i) ==
    /\ msgs[i].class = "AIMessage"
    /\ msgs[i].content \notin {SummaryText, PlaceholderText}
    /\ (i = 1 \/ msgs[i - 1].class # "HumanMessage")

\* C13: pruning removes whole pairs: after any sequence of save_context
\* calls the retained history holds no assistant reply whose user prompt
\* was pruned away.
C13_NoOrphanedReply ==
    \A i \in 1..Len(chat_messages) : ~Orphaned(chat_messages, i)

(***************************************************************************)
(* Claims about AgentService.switch_session                                *)
(***************************************************************************)
\* C14: switch_session(s) for a session id not used before returns without
\* raising; self.memory and self.executor.memory are then the same new
\* ConversationMemory, its session_id is s and its history holds none of the
\* previous session's turns.
C14_SessionSwitch ==
    (switch_result.kind # "none" /\ switch_result.unused) =>
        /\ switch_result.kind = "returned"
        /\ switch_result.memory.session_id = switch_result.session_id
        /\ switch_result.executor_memory = switch_result.memory.id
        /\ Range(switch_result.memory.messages) \cap switch_result.previous_turns = {}

(***************************************************************************)
(* Claims about system turns in ContextManager                             *)
(***************************************************************************)
\* C15: no sequence of add_message calls removes a system turn: every
\* system turn ever added is still in conversation_history.
C15_SystemTurnsSurvive ==
    \A i \in 1..Len(added) :
        IsSystem(added[i]) => added[i] \in Range(conversation_history)

\* Pruning dropped a user or assistant turn that is newer than a system
\* turn, and the system turn is still there.
C15_Witness ==
    \E i, j \in 1..Len(added) :
        /\ i < j
        /\ IsSystem(added[i])
        /\ added[i] \in Range(conversation_history)
        /\ ~IsSystem(added[j])
        /\ added[j] \notin Range(conversation_history)

(***************************************************************************)
(* Claims about ContextManager.get_context                                 *)
(***************************************************************************)
IsSummaryTurn(m) == "is_summary" \in DOMAIN m

\* A system turn of the history (not the synthetic summary turn)
IsSystemTurn(m) == ~IsSummaryTurn(m) /\ m.role = "system"

FullContext == context.kind = "returned" /\ context.include_recent /\ context.include_summary

\* The list is the system turns, then the summary turn iff the summary is
\* not empty, then the last min(max_messages, len) turns of the history
ContextLayout ==
    LET items == context.items
        h == context.history
        nSys == Cardinality({i \in 1..Len(h) : h[i].role = "system"})
        nSum == IF context.summary # "" THEN 1 ELSE 0
        nRec == Min(max_messages, Len(h))
    IN  /\ Len(items) = nSys + nSum + nRec
        /\ \A i \in 1..nSys : IsSystemTurn(items[i])
        /\ \A i, j \in 1..nSys :
              i < j => \E a, b \in 1..Len(h) : a < b /\ h[a] = items[i] /\ h[b] = items[j]
        /\ \A i \in 1..Len(h) : h[i].role = "system" => \E k \in 1..nSys : items[k] = h[i]
        /\ nSum = 1 => (IsSummaryTurn(items[nSys + 1])
                        /\ items[nSys + 1].content = context.summary)
        /\ \A i \in 1..Len(items) : IsSummaryTurn(items[i]) => (nSum = 1 /\ i = nSys + 1)
        /\ \A i \in 1..nRec : items[nSys + nSum + i] = h[Len(h) - nRec + i]

\* C16 as stated: system turns, summary turn, recent turns, so that every
\* system turn in the list precedes the summary turn and every
\* user/assistant turn.
C16_ContextOrder_AsStated ==
    FullContext =>
        /\ ContextLayout
        /\ \A i, j \in 1..Len(context.items) :
              (/\ IsSystemTurn(context.items[i])
               /\ (IsSummaryTurn(context.items[j])
                   \/ context.items[j].role \in {"user", "assistant"}))
              => i < j

\* C16: get_context(include_recent=True, include_summary=True) returns the
\* system turns, then the summary turn (present iff the summary string is
\* non-empty), then the recent turns; the recent turns are the tail of the
\* whole history, so a system turn among them is repeated there, and every
\* system turn has an occurrence before the summary turn and before every
\* user/assistant turn.
C16_ContextOrder ==
    FullContext =>
        /\ ContextLayout
        /\ \A k \in 1..Len(context.history) :
              context.history[k].role = "system" =>
                 \E i \in 1..Len(context.items) :
                    /\ context.items[i] = context.history[k]
                    /\ \A j \in 1..Len(context.items) :
                          (IsSummaryTurn(context.items[j])
                           \/ context.items[j].role \in {"user", "assistant"}) => i < j

\* A full context with a summary, built from a history longer than
\* max_messages that holds a user turn followed by a system turn
C16_Witness ==
    /\ FullContext
    /\ context.summary # ""
    /\ Len(context.history) > max_messages
    /\ \E a, b \in 1..Len(context.history) :
          /\ a < b
          /\ context.history[a].role = "user"
          /\ context.history[b].role = "system"

(***************************************************************************)
(* Claims about the fusion of recommendations                              *)
(***************************************************************************)
InputIds == {DocId(rank_input.base_results[i]) : i \in 1..Len(rank_input.base_results)}
               \cup {DocId(rank_input.personal_results[j]) :
                        j \in 1..Len(rank_input.personal_results)}

\* Ranks counted from 0; the lists explored hold every id at most once
RanksOf(list, doc_id) == {i - 1 : i \in {k \in 1..Len(list) : DocId(list[k]) = doc_id}}

\* (1.0 - 0.1*base_rank) + weight*(1.0 - 0.1*personal_rank), in hundredths
BaseOnlyScore(doc_id) ==
    LET r == RanksOf(rank_input.base_results, doc_id)
    IN  IF r = {} THEN 0 ELSE 100 - 10 * (CHOOSE i \in r : TRUE)

PersonalBoost(doc_id) ==
    LET r == RanksOf(rank_input.personal_results, doc_id)
    IN  IF r = {} THEN 0
        ELSE rank_input.personalization_weight * (10 - (CHOOSE j \in r : TRUE))

ExampleInput ==
    RankInput(<<Doc("A", "base-A"), Doc("B", "base-B"), Doc("C", "base-C")>>,
              <<Doc("B", "pers-B"), Doc("D", "pers-D")>>, 3)

\* C17: _rank_recommendations returns one entry per distinct document id,
\* scored (1.0 - 0.1*base_rank if in the base list) + weight*(1.0 -
\* 0.1*personal_rank if in the personal list), sorted by score descending;
\* base [A, B, C], personal [B, D], weight 0.3 gives B, A, C, D.
C17_FusionOrdering ==
    ranked.kind = "returned" =>
        /\ Len(ranked.items) = Cardinality(InputIds)
        /\ {DocId(ranked.items[k].doc) : k \in 1..Len(ranked.items)} = InputIds
        /\ \A k \in 1..Len(ranked.items) :
              ranked.items[k].relevance_score =
                  BaseOnlyScore(DocId(ranked.items[k].doc))
                      + PersonalBoost(DocId(ranked.items[k].doc))
        /\ \A k \in 1..(Len(ranked.items) - 1) :
              ranked.items[k].relevance_score >= ranked.items[k + 1].relevance_score
        /\ rank_input = ExampleInput =>
              [k \in 1..Len(ranked.items) |-> DocId(ranked.items[k].doc)]
                  = <<"B", "A", "C", "D">>

\* The example lists have been fused
C17_Witness == ranked.kind = "returned" /\ rank_input = ExampleInput

\* C18: the fused score of every base document is at least its base-only
\* score, whatever top_k, the lists (up to 3*top_k and 2*top_k entries) and
\* the weight in [0, 1].
C18_PersonalizationAdds ==
    ranked.kind = "returned" =>
        \A k \in 1..Len(ranked.items) :
            RanksOf(rank_input.base_results, DocId(ranked.items[k].doc)) # {} =>
                ranked.items[k].relevance_score
                    >= BaseOnlyScore(DocId(ranked.items[k].doc))

(***************************************************************************)
(* Claims about the ranking fallback                                       *)
(***************************************************************************)
SomethingRaised == rec_request.raises # None \/ rec_request.lookup_fails

PlainSearchSucceeds ==
    /\ rec_request.fallback_embed_ok
    /\ rec_request.fallback_search_ok
    /\ rec_request.found > 0

\* C19: whichever step of get_personalized_recommendations raises, the call
\* returns a list; every returned item is tagged fallback=True, and the
\* list is non-empty whenever the plain similarity search on the base query
\* succeeds with results.
C19_FallbackNeverFails ==
    (rec_result.kind # "none" /\ SomethingRaised) =>
        /\ rec_result.kind = "returned"
        /\ \A i \in 1..Len(rec_result.items) : rec_result.items[i].fallback
        /\ PlainSearchSucceeds => rec_result.items # <<>>

(***************************************************************************)
(* Claims about ConversationSummarizer.process_messages                    *)
(***************************************************************************)
\* Total token count of the list handed in
InputTokens ==
    LET msgs == summarizer_input.messages
        RECURSIVE Sum(_)
        Sum(i) == IF i = 0 THEN 0 ELSE TokensOf(msgs[i].content) + Sum(i - 1)
    IN  Sum(Len(msgs))

\* total <= max_tokens * 0.7
UnderThreshold == InputTokens * 10 <= summarizer_input.max_tokens * 7

\* C20: when the total token count does not exceed max_tokens *
\* summary_threshold, process_messages returns exactly the input list (same
\* length, contents and order) and makes no LLM call.
C20_SummarizationNoOp ==
    (summarizer_result.kind = "returned" /\ UnderThreshold) =>
        /\ summarizer_result.messages = summarizer_input.messages
        /\ summarizer_result.llm_calls = 0

\* A list of several turns that is exactly at the threshold went through
C20_Witness ==
    /\ summarizer_result.kind = "returned"
    /\ Len(summarizer_input.messages) >= 2
    /\ InputTokens * 10 = summarizer_input.max_tokens * 7

(***************************************************************************)
(* C26: insertion order of the retained turns                              *)
(***************************************************************************)
\* C26: after any sequence of add_message calls, the non-system turns still
\* in conversation_history stand in the order in which they were added: of
\* two retained non-system turns the one added earlier (smaller timestamp)
\* comes first.
C26_InsertionOrder ==
    \A i, j \in 1..Len(conversation_history) :
        (/\ i < j
         /\ ~IsSystem(conversation_history[i])
         /\ ~IsSystem(conversation_history[j]))
        => conversation_history[i].timestamp < conversation_history[j].timestamp

(***************************************************************************)
(* Claims about the rebuild after summarization                            *)
(***************************************************************************)
\* An entry the summarizer produced (a summary or the degraded placeholder)
IsSummaryEntry(e) == e.type \in {"summary", "summary_error"}

\* The message class that stands for a role
ClassOfRole(role) ==
    CASE role = "user" -> "HumanMessage"
      [] role = "assistant" -> "AIMessage"
      [] OTHER -> "SystemMessage"

\* C22: when process_messages returned fewer entries than it was given, the
\* rebuilt turn list has one turn per processed entry, in the same order and
\* with the same content; every summary entry (successful or placeholder) is
\* an assistant turn and every other entry keeps the role it had.
C22_RebuildKeepsEntries ==
    ("rebuilt" \in DOMAIN mem_frame) =>
        LET p == mem_frame.processed
            r == mem_frame.rebuilt
        IN  /\ Len(r) = Len(p)
            /\ \A i \in 1..Len(p) :
                  /\ r[i].content = p[i].content
                  /\ IsSummaryEntry(p[i]) => r[i].class = "AIMessage"
                  /\ ~IsSummaryEntry(p[i]) => r[i].class = ClassOfRole(p[i].role)

(***************************************************************************)
(* Claims about history.json during a turn                                 *)
(***************************************************************************)
\* history.json as the running public operation found it
EntryHistory ==
    IF "entry" \in DOMAIN mem_frame THEN mem_frame.entry ELSE mem_frame.before

\* C29: at every point of the last _persist of a save_context call, a load
\* of history.json gives either the history as of before the call or the
\* history as of after the call (the turns and metadata now in memory), also
\* when summarization rebuilt the turn list earlier in the call.
C29_NoIntermediateOnDisk ==
    (InPersist /\ mem_frame.op = "save_context" /\ mem_frame.after = "return") =>
        \/ _load_history(disk.history) = _load_history(EntryHistory)
        \/ _load_history(disk.history) = _load_history(mem_frame.data)

(***************************************************************************)
(* Claims about what invoke hands back                                     *)
(***************************************************************************)
\* A turn in which nothing outside invoke fails: no other session is asked
\* for and the agent executor answers.
ExecutorAnswers(in) == ~in.switch /\ ~in.executorRaises

\* C23: a turn whose executor answered ends as a successful turn: invoke
\* returns from its try block, every tool of the intermediate steps is a key
\* of response['metrics']['tool_usage'], and the assistant turn carrying the
\* trace is the newest turn of the ContextManager.
C23_ToolTrace ==
    [][(/\ invoke_frame.pc # "idle"
        /\ invoke_frame'.pc = "idle"
        /\ ExecutorAnswers(invoke_frame.input))
       => LET steps == invoke_frame.input.steps
          IN  /\ invoke_result' = SuccessResponse
              /\ Range(steps) \subseteq DOMAIN ToolData(steps).tool_usage
              /\ ToolData(steps).tool_calls = steps
              /\ conversation_history' # <<>>
              /\ conversation_history'[Len(conversation_history')].role = "assistant"]_vars

\* C24: a failed turn ends with the error dict, and no field of that dict
\* carries the exception text or a stack trace: the only trace of the error
\* the user sees is the short error id inside the generated message.
C24_NoInternals ==
    (invoke_result.kind # "none" /\ invoke_result # SuccessResponse) =>
        /\ invoke_result.kind = "returned"
        /\ "error" \notin invoke_result.keys
        /\ "stack_trace" \notin invoke_result.metadata

(***************************************************************************)
(* Claims about turns kept by ContextManager pruning                       *)
(***************************************************************************)
\* C28: pruning never duplicates a turn: each added turn occurs at most once
\* in conversation_history, and the history is never longer than the number
\* of add_message calls made.
C28_NoDuplicates ==
    /\ \A i, j \in 1..Len(conversation_history) :
          i # j => conversation_history[i] # conversation_history[j]
    /\ Len(conversation_history) <= Len(added)

(***************************************************************************)
(* Claims about the article counters                                       *)
(***************************************************************************)
\* The counters of one article entry are consistent
ConsistentEntry(e) ==
    /\ e.views >= e.likes + e.shares + e.saves
    /\ e.views >= 0 /\ e.likes >= 0 /\ e.shares >= 0 /\ e.saves >= 0
    /\ e.views > 0 => e.last_viewed # FreshArticle.last_viewed

\* No counter of the entry went down from e to f
NotDecreased(e, f) ==
    /\ f.views >= e.views
    /\ f.likes >= e.likes
    /\ f.shares >= e.shares
    /\ f.saves >= e.saves

\* C30: after any sequence of log_tool_use / log_article_interaction calls
\* every article entry has views >= likes + shares + saves, its four counters
\* are non-negative, last_viewed is set whenever views > 0, and no call
\* removes an entry or lowers one of its counters.
C30_CountersConsistent ==
    /\ [](\A a \in DOMAIN article_metrics : ConsistentEntry(article_metrics[a]))
    /\ [][\A a \in DOMAIN article_metrics :
             /\ a \in DOMAIN article_metrics'
             /\ NotDecreased(article_metrics[a], article_metrics'[a])]_vars

\* Witness of C30: an article that was viewed, liked, shared and saved, next
\* to another article with an entry of its own.
C30_Witness ==
    /\ DOMAIN article_metrics = Articles
    /\ article_metrics["a1"].views = MaxCalls - 1
    /\ article_metrics["a1"].likes = 1
    /\ article_metrics["a1"].shares = 1
    /\ article_metrics["a1"].saves = 1

(***************************************************************************)
(* Claims about the while loop of _prune_history                           *)
(***************************************************************************)
\* C27: the while loop of _prune_history terminates for every history and
\* configuration reached (also when only system turns or protected tail
\* turns remain, and when a single turn is larger than max_tokens), and
\* each iteration that changes the history removes exactly one turn that
\* lies before the last min_recent_messages positions.
C27_LoopTerminatesKeepsTail ==
    /\ (prune_frame.pc = "while") ~> (prune_frame.pc = "idle")
    /\ [][(prune_frame.pc = "while" /\ conversation_history' # conversation_history)
          => \E i \in 1..Len(conversation_history) :
                /\ i <= Len(conversation_history) - min_recent_messages
                /\ conversation_history' = RemoveAt(conversation_history, i)]_vars

\* Witness of C27: the loop has removed a turn, the history is still over
\* max_tokens because of one turn that alone exceeds it, and every turn left
\* is a system turn or lies in the protected tail, so the loop is about to
\* break.
C27_Witness ==
    /\ prune_frame.pc = "while"
    /\ WhileCondition
    /\ Removable(conversation_history, min_recent_messages) = {}
    /\ Len(conversation_history) < Len(added)
    /\ \E i \in 1..Len(conversation_history) : conversation_history[i].tokens > max_tokens

(***************************************************************************)
(* Claims about the response-time window                                   *)
(***************************************************************************)
\* The non-None response_time values logged for tool t, in call order
ResponseTimesLogged(t) ==
    LET Timed(c) == c.tool_name = t /\ c.response_time # <<>>
        timed == SelectSeq(calls, Timed)
    IN  [i \in 1..Len(timed) |-> timed[i].response_time[1]]

\* The last n elements of s (all of s when it has fewer), in order
MostRecent(s, n) ==
    LET k == Min(n, Len(s))
    IN  [i \in 1..k |-> s[Len(s) - k + i]]

\* C25: after any sequence of log_tool_use calls each tool's response_times
\* list has at most 1000 entries and equals, in call order, the most recent
\* (up to 1000) non-None response_time values logged for that tool; a call
\* with response_time=None leaves every list unchanged.
C25_CappedWindow ==
    /\ [](\A t \in Tools :
             LET window == Get(metrics.response_times, t, <<>>)
             IN  /\ Len(window) <= ResponseWindow
                 /\ window = MostRecent(ResponseTimesLogged(t), ResponseWindow))
    /\ [][(/\ Len(calls') = Len(calls) + 1
           /\ calls'[Len(calls')].response_time = <<>>)
          => metrics'.response_times = metrics.response_times]_vars

\* Witness of C25: more than 1000 timed calls of one tool were logged, so the
\* oldest samples have left its window, another tool has a short window of
\* its own, and the newest call carried no response time.
C25_Witness ==
    /\ Len(ResponseTimesLogged("weather")) > ResponseWindow
    /\ Len(metrics.response_times["weather"]) = ResponseWindow
    /\ "vector_store_search" \in DOMAIN metrics.response_times
    /\ calls[Len(calls)].response_time = <<>>

(***************************************************************************)
(* Claims about a failing summarizer                                       *)
(***************************************************************************)
\* The LLM call of the summarizer failed in the running save_context call
LlmFailed == "llm_ok" \in DOMAIN mem_frame /\ ~mem_frame.llm_ok

\* The entry summarize_messages returns when the LLM call fails
Placeholder == [content |-> PlaceholderText, role |-> None, type |-> "summary_error"]

====
